---- MODULE Spec2Model ----
(***************************************************************************)
(* Model of the Metriox Telegram WebApp SDK client (src/src/index.ts):     *)
(* the in-memory event queue, the flush scheduler (size threshold, timer,  *)
(* explicit flush, visibility change), the retried transport and           *)
(* shutdown with its cleanup callbacks.                                    *)
(*                                                                         *)
(* JavaScript runs one cooperative timeline: every action below is the     *)
(* synchronous run of one handler up to its next await.                    *)
(***************************************************************************)
EXTENDS Integers, Sequences, FiniteSets, TLC

\* ------------------------------------------------------------------ bounds
\* number of events the application produces in one run
MaxEvents == 4
\* largest configured maxBatch / maxQueue / retryCount explored
MaxBatchCfg == 3
MaxQueueCfg == 2
MaxRetryCfg == 1

\* state.timer = null
NoTimer == 0

VARIABLES
  opts,      \* the options snapshot taken by init
  state,     \* the client's state object: queue, timer, flushing, alive, cleanupFns
  timers,    \* handles of the setTimeout callbacks that are armed
  flights,   \* invocations of flush() suspended at an await
  listeners, \* DOM listeners currently registered by the client
  ran,       \* how often each cleanup callback has been invoked
  thrown,    \* TRUE iff the last public call threw
  nextId,    \* EventId of the next event (uuid(): fresh per event)
  sent,      \* Events of the accepted transport calls, concatenated
  lastOp,    \* the handler that ran last
  lastBatch, \* the batch that handler was about (flush continuations)
  sr,        \* one invocation of sendRequest, followed attempt by attempt
  ctor,      \* one call of init: the config passed and how the call ended
  dd,        \* the dedupe gate: the adapter's store, the clock, the last answers
  api,       \* what the application and the transport mock observe of a client
  split,     \* one call of splitProps: the property map passed and how the call ended
  react      \* the React binding: the module state of react/init.ts and what its
             \* last call gave back, or one MetrioxProvider from mount to unmount

vars == <<opts, state, timers, flights, listeners, ran, thrown, nextId, sent, lastOp, lastBatch,
          sr, ctor, dd, api, split, react>>

\* the variables the scheduler's handlers never touch
aux == <<sr, ctor, dd, api, split, react>>

\* the value of a variable the specification at hand does not follow
NotFollowed == <<>>

\* ---------------------------------------------------------------- helpers
Min(a, b) == IF a <= b THEN a ELSE b
Max(a, b) == IF a >= b THEN a ELSE b

Range(q) == {q[i] : i \in 1..Len(q)}

\* what Array.prototype.splice(0, n) returns: the first n elements
SpliceTaken(q, n) == SubSeq(q, 1, Min(Max(n, 0), Len(q)))
\* what Array.prototype.splice(0, n) leaves in the array
SpliceFront(q, n) == SubSeq(q, Min(Max(n, 0), Len(q)) + 1, Len(q))

\* the handle setTimeout returns: one that names no armed timeout
NewHandle(T) == CHOOSE h \in 1..(Cardinality(T) + 1) : h \notin T /\ \A g \in 1..(h - 1) : g \in T

\* ------------------------------------------------------- auto instrumentation
AutoFlags == {"page", "nav", "clicks", "forms", "errors"}
AutoFalse == [kind |-> "false", flags |-> {}]
AutoTrue == [kind |-> "true", flags |-> {}]
AutoObject(fl) == [kind |-> "object", flags |-> fl]

mergeAuto(auto) ==
  IF auto.kind = "true" THEN AutoFlags
  ELSE IF auto.kind = "false" THEN {}
  ELSE auto.flags

\* opts.auto is truthy: true or any object
AutoTruthy(auto) == auto.kind # "false"

\* the cleanups attachAuto collects, in the order it pushes them
AutoCleanupOrder == <<"nav", "clicks", "forms", "errors">>
AutoCleanups(auto) == SelectSeq(AutoCleanupOrder, LAMBDA c : c \in mergeAuto(auto))

\* the DOM listeners a cleanup removes
ListenersOf(c) ==
  CASE c = "nav" -> {"popstate"}
    [] c = "clicks" -> {"click"}
    [] c = "forms" -> {"submit"}
    [] c = "errors" -> {"error", "unhandledrejection"}
    [] c = "vis" -> {"visibilitychange"}
    [] OTHER -> {}

CleanupNames == {"auto", "nav", "clicks", "forms", "errors", "vis"}


\* ------------------------------------------------------------ the scheduler
\* The operators below are the synchronous code of init's closures. They act
\* on w = [state, timers, flights]: the state object, the armed timeouts and
\* the suspended flush() invocations.

\* A flush() invocation suspended at an await: the batch it spliced off, the
\* await it is at ("auth": resolveInitData, "fetch": fetch, "sleep": backoff)
\* and sendRequest's attempt counter
Flight(events) == [events |-> events, pc |-> "auth", attempt |-> 0]

\* a scheduleFlush that arms a timer on a client that was shut down
scheduleFlushWhenDead(w) ==
  IF w.state.timer # NoTimer THEN w
  ELSE LET h == NewHandle(w.timers)
       IN [w EXCEPT !.state.timer = h, !.timers = @ \cup {h}]

\* a scheduleFlush that arms a timer although one is pending
scheduleFlushRearm(w) ==
  IF ~w.state.alive THEN w
  ELSE LET h == NewHandle(w.timers)
       IN [w EXCEPT !.state.timer = h, !.timers = @ \cup {h}]

scheduleFlush(w) ==
  IF ~w.state.alive \/ w.state.timer # NoTimer THEN w
  ELSE LET h == NewHandle(w.timers)
       IN [w EXCEPT !.state.timer = h, !.timers = @ \cup {h}]

\* flush() without the re-entrancy guard
FlushReturnsEarlyUnguarded(s) == ~s.alive \/ Len(s.queue) = 0

\* flush()'s early return
FlushReturnsEarly(s) == ~s.alive \/ s.flushing \/ Len(s.queue) = 0

\* a flush that takes the whole queue as its batch
flushWholeQueue(w) ==
  IF FlushReturnsEarly(w.state) THEN w
  ELSE [w EXCEPT !.state.flushing = TRUE,
                 !.state.queue = <<>>,
                 !.flights = @ \cup {Flight(w.state.queue)}]

\* flush() up to its first await
flush(w) ==
  IF FlushReturnsEarly(w.state) THEN w
  ELSE [w EXCEPT !.state.flushing = TRUE,
                 !.state.queue = SpliceFront(@, opts.maxBatch),
                 !.flights = @ \cup {Flight(SpliceTaken(w.state.queue, opts.maxBatch))}]

\* an eviction that makes room for one event too few
PushCappedOffByOne(q, evt) ==
  IF Len(q) >= opts.maxQueue
  THEN Append(SpliceFront(q, Len(q) - opts.maxQueue), evt)
  ELSE Append(q, evt)

\* enqueue's drop-oldest eviction followed by the push
PushCapped(q, evt) ==
  IF Len(q) >= opts.maxQueue
  THEN Append(SpliceFront(q, Len(q) - opts.maxQueue + 1), evt)
  ELSE Append(q, evt)

\* an enqueue that drops the event
enqueueNothing(w, evt) == w

\* an enqueue that leaves every flush to the timer
enqueueTimerOnly(w, evt) ==
  IF ~w.state.alive THEN w
  ELSE scheduleFlush([w EXCEPT !.state.queue = PushCapped(@, evt)])

enqueue(w, evt) ==
  IF ~w.state.alive THEN w
  ELSE LET w1 == [w EXCEPT !.state.queue = PushCapped(@, evt)]
       IN IF Len(w1.state.queue) >= opts.maxBatch THEN flush(w1) ELSE scheduleFlush(w1)

\* a requeue behind the events enqueued meanwhile
RequeueAtBack(events, q) == q \o events

\* flush's requeue of a failed batch
Requeue(events, q) == events \o q

\* a flush that puts its batch back whatever the send returned
flushResumeRequeueAlways(w, events, ok) ==
  [scheduleFlush([w EXCEPT !.state.queue = Requeue(events, @)]) EXCEPT !.state.flushing = FALSE]

\* a flush that never arms the timer after a successful send
flushResumeNoReschedule(w, events, ok) ==
  LET w1 == IF ~ok THEN scheduleFlush([w EXCEPT !.state.queue = Requeue(events, @)])
            ELSE w
  IN [w1 EXCEPT !.state.flushing = FALSE]

\* a flush that requeues a failed batch without scheduling the retry
flushResumeNoRetry(w, events, ok) ==
  LET w1 == IF ~ok THEN [w EXCEPT !.state.queue = Requeue(events, @)]
            ELSE IF Len(w.state.queue) > 0 THEN scheduleFlush(w)
            ELSE w
  IN [w1 EXCEPT !.state.flushing = FALSE]

\* flush() after sendRequest has returned ok, for the batch `events`
flushResume(w, events, ok) ==
  LET w1 == IF ~ok THEN scheduleFlush([w EXCEPT !.state.queue = Requeue(events, @)])
            ELSE IF Len(w.state.queue) > 0 THEN scheduleFlush(w)
            ELSE w
  IN [w1 EXCEPT !.state.flushing = FALSE]

\* a flush without the finally
flushAbortKeepsGuard(w) == w

\* flush() when the await of resolveInitData throws: only the finally runs
flushAbort(w) == [w EXCEPT !.state.flushing = FALSE]

\* --------------------------------------------------------------- shutdown
\* a shutdown that also empties the queue
shutdownStateClearing(s) == [s EXCEPT !.alive = FALSE, !.timer = NoTimer, !.queue = <<>>]

\* a shutdown that forgets the timer handle
shutdownStateKeepsTimer(s) == [s EXCEPT !.alive = FALSE]

\* what shutdown assigns in the state object before it runs the cleanups
shutdownState(s) == [s EXCEPT !.alive = FALSE, !.timer = NoTimer]

\* Running cleanup callbacks acts on c = [ran, listeners, threw].

\* one of the cleanups attachAuto collects, or the visibility cleanup;
\* `thr` is the set of callbacks that throw in this run
CallCleanup(fn, thr, c) ==
  [ran |-> [c.ran EXCEPT ![fn] = @ + 1],
   listeners |-> IF fn \in thr THEN c.listeners ELSE c.listeners \ ListenersOf(fn),
   threw |-> fn \in thr]

\* attachAuto's returned cleanup(): every collected cleanup inside try/catch
RECURSIVE cleanup(_, _, _)
cleanup(fns, thr, c) ==
  IF fns = <<>> THEN [c EXCEPT !.threw = FALSE]
  ELSE cleanup(Tail(fns), thr, [CallCleanup(Head(fns), thr, c) EXCEPT !.threw = FALSE])

\* one element of state.cleanupFns
CallCleanupFn(fn, thr, c) ==
  IF fn = "auto"
  THEN cleanup(AutoCleanups(opts.auto), thr, [c EXCEPT !.ran["auto"] = @ + 1])
  ELSE CallCleanup(fn, thr, c)

\* the loop without its try/catch: the first throwing callback ends it
RECURSIVE RunCleanupFnsNoCatch(_, _, _)
RunCleanupFnsNoCatch(fns, thr, c) ==
  IF fns = <<>> THEN c
  ELSE LET c1 == CallCleanupFn(Head(fns), thr, c)
       IN IF c1.threw THEN c1 ELSE RunCleanupFnsNoCatch(Tail(fns), thr, c1)

\* shutdown's loop over state.cleanupFns: every callback inside try/catch
RECURSIVE RunCleanupFns(_, _, _)
RunCleanupFns(fns, thr, c) ==
  IF fns = <<>> THEN [c EXCEPT !.threw = FALSE]
  ELSE RunCleanupFns(Tail(fns), thr, [CallCleanupFn(Head(fns), thr, c) EXCEPT !.threw = FALSE])

\* ------------------------------------------------------------------- init
\* the configurations explored
AutoInputs == {AutoFalse, AutoObject({"page", "clicks"})}

Options ==
  [maxBatch : 1..MaxBatchCfg, maxQueue : 1..MaxQueueCfg, retryCount : 0..MaxRetryCfg,
   auto : AutoInputs]

\* the state object init builds
NewState ==
  [queue |-> <<>>, timer |-> NoTimer, flushing |-> FALSE, alive |-> TRUE, cleanupFns |-> <<>>]

\* attachAuto: client.page("page_view") when enabled.page
AfterAttachAuto(w) ==
  IF AutoTruthy(opts.auto) /\ "page" \in mergeAuto(opts.auto) THEN enqueue(w, 1) ELSE w

InitWorld == AfterAttachAuto([state |-> NewState, timers |-> {}, flights |-> {}])

InitCleanupFns == (IF AutoTruthy(opts.auto) THEN <<"auto">> ELSE <<>>) \o <<"vis">>

\* the callbacks shutdown reaches: attachAuto's collected cleanups and the
\* visibility cleanup
Registered == (IF AutoTruthy(opts.auto) THEN Range(AutoCleanups(opts.auto)) ELSE {}) \cup {"vis"}

InitListeners == UNION {ListenersOf(c) : c \in Registered}

Init ==
  /\ opts \in Options
  /\ state = [InitWorld.state EXCEPT !.cleanupFns = InitCleanupFns]
  /\ timers = InitWorld.timers
  /\ flights = InitWorld.flights
  /\ listeners = InitListeners
  /\ ran = [c \in CleanupNames |-> 0]
  /\ thrown = FALSE
  /\ nextId = Len(InitWorld.state.queue) + Cardinality(InitWorld.flights) + 1
  /\ sent = <<>>
  /\ lastOp = "init"
  /\ lastBatch = <<>>
  /\ sr = NotFollowed
  /\ ctor = NotFollowed
  /\ dd = NotFollowed
  /\ api = NotFollowed
  /\ split = NotFollowed
  /\ react = NotFollowed

\* ---------------------------------------------------------------- actions
World == [state |-> state, timers |-> timers, flights |-> flights]

Becomes(w) ==
  /\ state' = w.state
  /\ timers' = w.timers
  /\ flights' = w.flights

\* pushEvent(eventType, ...): builds the event (a fresh EventId) and enqueues it
pushEvent(eventType) ==
  /\ nextId <= MaxEvents
  /\ Becomes(enqueue(World, nextId))
  /\ nextId' = nextId + 1
  /\ lastOp' = eventType
  /\ lastBatch' = <<>>
  /\ UNCHANGED aux
  /\ thrown' = FALSE
  /\ UNCHANGED <<opts, listeners, ran, sent>>

\* client.track / client.page / client.interaction
Track == pushEvent("custom")
Page == pushEvent("page")
Interaction == pushEvent("interaction")

\* client.flush() called by the application
Flush ==
  /\ Becomes(flush(World))
  /\ lastOp' = "flush"
  /\ lastBatch' = <<>>
  /\ UNCHANGED aux
  /\ thrown' = FALSE
  /\ UNCHANGED <<opts, listeners, ran, nextId, sent>>

\* the visibilitychange listener, with document.visibilityState = "hidden"
VisibilityHidden ==
  /\ "visibilitychange" \in listeners
  /\ Becomes(flush(World))
  /\ lastOp' = "visibility"
  /\ lastBatch' = <<>>
  /\ UNCHANGED aux
  /\ thrown' = FALSE
  /\ UNCHANGED <<opts, listeners, ran, nextId, sent>>

\* the setTimeout callback of scheduleFlush
TimerFire ==
  \E h \in timers :
    /\ Becomes(flush([World EXCEPT !.timers = @ \ {h}, !.state.timer = NoTimer]))
    /\ lastOp' = "timer"
    /\ lastBatch' = <<>>
    /\ UNCHANGED aux
    /\ thrown' = FALSE
    /\ UNCHANGED <<opts, listeners, ran, nextId, sent>>

\* client.shutdown(); thr: the cleanup callbacks that throw
Shutdown ==
  \E thr \in SUBSET Registered :
    LET c == RunCleanupFns(state.cleanupFns, thr, [ran |-> ran, listeners |-> listeners, threw |-> FALSE])
    IN /\ state' = [shutdownState(state) EXCEPT !.cleanupFns = IF c.threw THEN @ ELSE <<>>]
       /\ timers' = timers \ {state.timer}
       /\ ran' = c.ran
       /\ listeners' = c.listeners
       /\ thrown' = c.threw
       /\ lastOp' = "shutdown"
       /\ lastBatch' = <<>>
       /\ UNCHANGED aux
       /\ UNCHANGED <<opts, flights, nextId, sent>>

\* resolveInitData resolves: flush builds the body and calls sendRequest,
\* which issues its first fetch
AuthResolved ==
  \E f \in flights :
    /\ f.pc = "auth"
    /\ flights' = (flights \ {f}) \cup {[f EXCEPT !.pc = "fetch"]}
    /\ lastOp' = "send"
    /\ lastBatch' = f.events
    /\ UNCHANGED aux
    /\ UNCHANGED <<opts, state, timers, listeners, ran, thrown, nextId, sent>>

\* the auth provider throws or rejects
AuthFailed ==
  \E f \in flights :
    /\ f.pc = "auth"
    /\ Becomes(flushAbort([World EXCEPT !.flights = @ \ {f}]))
    /\ lastOp' = "authFail"
    /\ lastBatch' = f.events
    /\ UNCHANGED aux
    /\ UNCHANGED <<opts, listeners, ran, thrown, nextId, sent>>

\* fetch resolves with res.ok: sendRequest returns true
FetchOk ==
  \E f \in flights :
    /\ f.pc = "fetch"
    /\ Becomes(flushResume([World EXCEPT !.flights = @ \ {f}], f.events, TRUE))
    /\ sent' = sent \o f.events
    /\ lastOp' = "sendOk"
    /\ lastBatch' = f.events
    /\ UNCHANGED aux
    /\ UNCHANGED <<opts, listeners, ran, thrown, nextId>>

\* fetch rejects or resolves with a response that is not ok, retries are left
FetchFailRetry ==
  \E f \in flights :
    /\ f.pc = "fetch"
    /\ f.attempt < opts.retryCount
    /\ flights' = (flights \ {f}) \cup {[f EXCEPT !.pc = "sleep"]}
    /\ lastOp' = "retry"
    /\ lastBatch' = f.events
    /\ UNCHANGED aux
    /\ UNCHANGED <<opts, state, timers, listeners, ran, thrown, nextId, sent>>

\* the backoff sleep ends: the next attempt's fetch is issued
BackoffElapsed ==
  \E f \in flights :
    /\ f.pc = "sleep"
    /\ flights' = (flights \ {f}) \cup {[f EXCEPT !.pc = "fetch", !.attempt = @ + 1]}
    /\ lastOp' = "fetch"
    /\ lastBatch' = f.events
    /\ UNCHANGED aux
    /\ UNCHANGED <<opts, state, timers, listeners, ran, thrown, nextId, sent>>

\* the last attempt fails: sendRequest returns false
FetchFailFinal ==
  \E f \in flights :
    /\ f.pc = "fetch"
    /\ f.attempt >= opts.retryCount
    /\ Becomes(flushResume([World EXCEPT !.flights = @ \ {f}], f.events, FALSE))
    /\ lastOp' = "sendFail"
    /\ lastBatch' = f.events
    /\ UNCHANGED aux
    /\ UNCHANGED <<opts, listeners, ran, thrown, nextId, sent>>

Next ==
  \/ Track
  \/ Page
  \/ Interaction
  \/ Flush
  \/ VisibilityHidden
  \/ TimerFire
  \/ Shutdown
  \/ AuthResolved
  \/ AuthFailed
  \/ FetchOk
  \/ FetchFailRetry
  \/ BackoffElapsed
  \/ FetchFailFinal

Spec == Init /\ [][Next]_vars

TypeOK ==
  /\ opts \in Options
  /\ state.alive \in BOOLEAN
  /\ state.flushing \in BOOLEAN
  /\ state.timer \in {NoTimer} \cup timers
  /\ Range(state.queue) \subseteq 1..MaxEvents
  /\ \A f \in flights : f.pc \in {"auth", "fetch", "sleep"} /\ f.attempt \in 0..opts.retryCount

\* ----------------------------------------------------------------- claims
EnqueueOps == {"custom", "page", "interaction"}

\* the step is a call of track, page or interaction
IsEnqueueStep == nextId' = nextId + 1

\* the batch of the flush this step started (empty when it started none)
StartedBatch ==
  IF flights' \ flights = {} THEN <<>> ELSE (CHOOSE f \in flights' \ flights : f.pc = "auth").events

IsSuffix(a, b) == Len(a) <= Len(b) /\ a = SubSeq(b, Len(b) - Len(a) + 1, Len(b))
IsPrefix(a, b) == Len(a) <= Len(b) /\ a = SubSeq(b, 1, Len(a))
Increasing(q) == \A i, j \in 1..Len(q) : i < j => q[i] < q[j]

\* C1: in every reachable state the queue holds at most maxQueue events
C1_QueueWithinMaxQueue == Len(state.queue) <= opts.maxQueue

\* C2: after every enqueue on a live client the queue (together with the
\* batch a flush started inside that call took from it) is at most maxQueue
\* long and is exactly the newest events of the old queue followed by the new
\* event, in their original order: eviction removes only from the front
C2_EnqueueKeepsNewest ==
  [][(IsEnqueueStep /\ state.alive) =>
       LET pushed == StartedBatch \o state'.queue
           full == Append(state.queue, nextId)
       IN /\ Len(state'.queue) <= opts.maxQueue
          /\ Len(pushed) = Min(Len(full), opts.maxQueue)
          /\ IsSuffix(pushed, full)]_vars

\* an enqueue has just evicted: an event newer than the batch in flight is
\* neither queued, in flight nor sent, and the queue is full
C2_Witness ==
  /\ lastOp \in EnqueueOps
  /\ Len(state.queue) = opts.maxQueue
  /\ \E f \in flights : \E i \in 1..(nextId - 1) :
       /\ i > f.events[Len(f.events)]
       /\ i \notin Range(state.queue) \cup Range(sent)

\* C3: at most one flush is in flight, and a flush requested by any trigger
\* while one is in flight starts nothing: it removes no event from the queue
\* and hands nothing to the transport
C3_SingleFlight ==
  [][/\ Cardinality(flights') <= 1
     /\ (flights # {} /\ lastOp' \in EnqueueOps \cup {"flush", "visibility", "timer"}) =>
          /\ flights' = flights
          /\ (lastOp' \notin EnqueueOps => state'.queue = state.queue)]_vars

\* flush() was called while a send was in flight and events were waiting
C3_Witness ==
  /\ lastOp = "flush"
  /\ state.alive
  /\ Len(state.queue) > 0
  /\ \E f \in flights : f.pc = "fetch"

\* C4: when the transport fails for a batch on a live client, the queue
\* right after is that batch, in order, followed by what the queue held, and
\* a flush timer is pending
C4_FailedBatchRequeued ==
  [][(lastOp' = "sendFail" /\ state.alive) =>
       /\ state'.queue = lastBatch' \o state.queue
       /\ state'.timer # NoTimer
       /\ state'.timer \in timers']_vars

\* a batch has just failed and sits in front of events enqueued meanwhile,
\* with the retry timer armed
C4_Witness ==
  /\ lastOp = "sendFail"
  /\ state.alive
  /\ Len(lastBatch) > 0
  /\ Len(state.queue) > Len(lastBatch)
  /\ IsPrefix(lastBatch, state.queue)
  /\ state.timer \in timers

\* C5: the events accepted by the transport, in order of acceptance, are a
\* subsequence of the enqueue order (EventIds are handed out in enqueue order)
C5_SentInEnqueueOrder == Increasing(sent) /\ Range(sent) \subseteq 1..(nextId - 1)

\* several events were accepted, one after another, while an older event was
\* dropped on the way: sent is a proper subsequence of the enqueue order
C5_Witness ==
  /\ lastOp = "sendOk"
  /\ Len(sent) >= 2
  /\ \E i \in 1..(nextId - 1) : i \notin Range(sent) /\ i < sent[Len(sent)]

\* the queue length enqueue's push leaves, before any flush it starts
PushedLen == Min(Len(state.queue), opts.maxQueue - 1) + 1

\* C6: an enqueue on a live client with no flush in progress that brings
\* the queue to maxBatch starts a flush inside the call: the first maxBatch
\* events leave the queue as one batch on its way to the transport, and no
\* timer is involved
C6_SizeThresholdFlushes ==
  [][(IsEnqueueStep /\ state.alive /\ ~state.flushing /\ flights = {} /\ PushedLen >= opts.maxBatch) =>
       /\ state'.flushing
       /\ Cardinality(flights' \ flights) = 1
       /\ Len(StartedBatch) = opts.maxBatch
       /\ IsSuffix(StartedBatch \o state'.queue, Append(state.queue, nextId))
       /\ timers' = timers]_vars

\* the enqueue that completed a batch of two or more started its flush while
\* the timer armed by the first event is still pending
C6_Witness ==
  /\ lastOp \in EnqueueOps
  /\ opts.maxBatch >= 2
  /\ timers # {}
  /\ \E f \in flights :
       /\ f.pc = "auth"
       /\ Len(f.events) = opts.maxBatch
       /\ f.events[Len(f.events)] = nextId - 1

C8_NothingStartsAfterShutdown ==
  [][~state.alive =>
       /\ (lastOp' \in EnqueueOps => state'.queue = state.queue)
       /\ timers' \subseteq timers
       /\ state'.timer = NoTimer
       /\ \A f \in flights' \ flights : f.pc # "auth"
       /\ lastOp' # "send"]_vars

\* C9 as stated: right after shutdown() the queue is empty
C9_QueueEmptyAfterShutdown == lastOp = "shutdown" => state.queue = <<>>

\* C9 as amended: shutdown() leaves the queue as it was
C9_ShutdownKeepsQueue == [][lastOp' = "shutdown" => state'.queue = state.queue]_vars

\* shutdown() has returned and events are still queued
C9_Witness == lastOp = "shutdown" /\ ~state.alive /\ Len(state.queue) > 0

\* the cleanup callbacks init registered
RegisteredFns == Registered \cup (IF AutoTruthy(opts.auto) THEN {"auto"} ELSE {})

\* C10: no cleanup callback ever runs twice; after shutdown() the client is
\* not alive, no timer is pending, every registered cleanup callback has run
\* exactly once whichever of them threw, and shutdown() did not throw
C10_ShutdownRunsEveryCleanup ==
  /\ \A c \in CleanupNames : ran[c] <= 1
  /\ ~state.alive =>
       /\ state.timer = NoTimer
       /\ timers = {}
       /\ \A c \in RegisteredFns : ran[c] = 1
  /\ lastOp = "shutdown" => ~state.alive /\ ~thrown

\* shutdown() has returned although the click cleanup threw (its listener is
\* still attached): the visibility cleanup behind it ran all the same
C10_Witness ==
  /\ lastOp = "shutdown"
  /\ "click" \in listeners
  /\ "visibilitychange" \notin listeners
  /\ ran["clicks"] = 1
  /\ ran["vis"] = 1

\* the step before this state ended a flush(): its send succeeded, its send
\* failed for good, or the auth provider threw
FlushEnded == lastOp \in {"sendOk", "sendFail", "authFail"}

\* C26: flushing is true exactly while a flush() invocation is suspended; every
\* flush that ends, by transport success, transport failure or a throwing auth
\* provider, leaves flushing false.
C26_FlushingGuardReleased ==
  /\ state.flushing <=> flights # {}
  /\ FlushEnded => ~state.flushing

\* the auth provider threw inside a flush of a live client: the guard is free
C26_Witness ==
  /\ lastOp = "authFail"
  /\ state.alive
  /\ Len(lastBatch) > 0
  /\ ~state.flushing

\* C27 as stated: when a flush ends with transport success, a flush timer is
\* pending if the queue still holds events, and otherwise the scheduler is
\* idle: not flushing and no timer pending.
C27_SuccessLeavesTimerOrIdle ==
  lastOp = "sendOk" =>
    IF Len(state.queue) > 0
    THEN state.timer # NoTimer
    ELSE ~state.flushing /\ state.timer = NoTimer

\* C27 amended: when a flush ends with transport success the client is not
\* flushing, and if it is alive and the queue still holds events a flush timer
\* is pending.
C27_SuccessReschedulesWhileAlive ==
  lastOp = "sendOk" =>
    /\ ~state.flushing
    /\ (state.alive /\ Len(state.queue) > 0) => state.timer # NoTimer

\* a send succeeded while events enqueued meanwhile wait: the timer is armed
C27_Witness ==
  /\ lastOp = "sendOk"
  /\ state.alive
  /\ Len(state.queue) > 0
  /\ state.timer # NoTimer
  /\ ~state.flushing

\* C28: whenever the client is alive and the queue is not empty, a flush is in
\* progress or a flush timer is pending.
C28_QueuedEventsHaveTrigger ==
  (state.alive /\ Len(state.queue) > 0) => (state.flushing \/ state.timer # NoTimer)

\* C29: every flush that ends leaves each event of the batch it removed either
\* accepted by the transport or back in the queue.
C29_RemovedBatchSentOrRequeued ==
  FlushEnded => Range(lastBatch) \subseteq Range(sent) \cup Range(state.queue)

\* the events created so far
Created == 1 .. (nextId - 1)

\* the events in the batch of a suspended flush()
InFlight == UNION {Range(f.events) : f \in flights}

\* C30, in the form a finite run refutes: on a live client on which drop-oldest
\* cannot have evicted anything (no more events were created than maxQueue
\* holds), every event created is delivered, queued or in the batch of a
\* running flush, so that a fair run can still deliver it.
C30_NoEventOutOfReach ==
  (state.alive /\ nextId - 1 <= opts.maxQueue) =>
    Created \subseteq Range(sent) \cup Range(state.queue) \cup InFlight

\* no element occurs twice in q
NoRepeats(q) == \A i, j \in 1..Len(q) : i # j => q[i] # q[j]

\* C31: no event is accepted by the transport more than once, no event is in
\* the queue and in the in-flight batch at the same time, no accepted event is
\* queued or in flight again, and an event that left the queue comes back into
\* it only in the step in which its send returned false.
C31_AcceptedOnceNeverDoubled ==
  [][/\ NoRepeats(sent')
     /\ NoRepeats(state'.queue)
     /\ Range(state'.queue) \cap InFlight' = {}
     /\ Range(sent') \cap (Range(state'.queue) \cup InFlight') = {}
     /\ ((Range(state'.queue) \ Range(state.queue)) \cap Created # {}) =>
          /\ lastOp' = "sendFail"
          /\ Range(state'.queue) \ Range(state.queue) = Range(lastBatch')
          /\ Range(lastBatch') \subseteq InFlight]_vars

\* a failed batch is back in the queue, in front of newer events, after an
\* earlier batch was accepted
C31_Witness ==
  /\ lastOp = "sendFail"
  /\ Len(sent) > 0
  /\ Len(lastBatch) > 0
  /\ IsPrefix(lastBatch, state.queue)
  /\ Len(state.queue) > Len(lastBatch)
  /\ flights = {}

\* C32: at most one flush timer is pending at any time and state.timer is its
\* handle; no timer is armed while one is pending or while the client is not
\* alive; the handle is cleared when the timer fires, before the flush it
\* starts, and on shutdown.
C32_AtMostOneTimer ==
  [][/\ Cardinality(timers') <= 1
     /\ timers' = (IF state'.timer = NoTimer THEN {} ELSE {state'.timer})
     /\ (timers # {} \/ ~state.alive) => timers' \subseteq timers
     /\ lastOp' \in {"timer", "shutdown"} => (state'.timer = NoTimer /\ timers' = {})
     /\ (lastOp' = "timer" /\ flights' # flights) =>
          \A f \in flights' \ flights : f.events = SpliceTaken(state.queue, opts.maxBatch)]_vars

\* the timer fired on a client with events queued: the handle is cleared and
\* the flush it started is suspended
C32_Witness ==
  /\ lastOp = "timer"
  /\ state.alive
  /\ state.timer = NoTimer
  /\ timers = {}
  /\ \E f \in flights : f.pc = "auth" /\ Len(f.events) > 0

\* C33: every batch handed to the transport holds at least 1 and at most
\* maxBatch events; it is the front of the queue as it was when its flush
\* started (after the push, when track started the flush), and it does not
\* change while the send is in flight: events enqueued meanwhile stay behind
\* it in the queue.
C33_BatchIsQueueFront ==
  [][/\ \A f \in flights' :
          /\ Len(f.events) >= 1
          /\ Len(f.events) <= opts.maxBatch
          /\ \A i \in 1..Len(f.events), j \in 1..Len(state'.queue) :
               f.events[i] < state'.queue[j]
     /\ \A f \in flights' \ flights :
          \/ \E g \in flights : g.events = f.events
          \/ /\ f.events = StartedBatch
             /\ Len(f.events) = Min(opts.maxBatch, Len(StartedBatch \o state'.queue))
             /\ IF IsEnqueueStep
                THEN IsSuffix(StartedBatch \o state'.queue, Append(state.queue, nextId))
                ELSE StartedBatch \o state'.queue = state.queue
     /\ lastOp' = "send" =>
          /\ Len(lastBatch') \in 1..opts.maxBatch
          /\ \E f \in flights : f.pc = "auth" /\ f.events = lastBatch']_vars

\* a full batch of two or more is at the transport while a newer event waits
C33_Witness ==
  /\ opts.maxBatch >= 2
  /\ Len(state.queue) > 0
  /\ \E f \in flights :
       /\ f.pc = "fetch"
       /\ Len(f.events) = opts.maxBatch
       /\ f.events[Len(f.events)] < state.queue[1]

\* C34: when shutdown() ran while a send was in flight and that send then
\* fails, the batch is put back in front of the queue and no flush is
\* scheduled: the client is not alive, not flushing, has no timer and a
\* non-empty queue; and once a client is not alive and no flush is suspended,
\* its queue never changes again and nothing more is accepted.
C34_FailedSendAfterShutdownStrands ==
  [][/\ (lastOp' = "sendFail" /\ ~state.alive) =>
          /\ state'.queue = lastBatch' \o state.queue
          /\ Len(state'.queue) > 0
          /\ ~state'.alive
          /\ ~state'.flushing
          /\ state'.timer = NoTimer
          /\ timers' = {}
     /\ (~state.alive /\ flights = {}) =>
          /\ state'.queue = state.queue
          /\ sent' = sent
          /\ flights' = {}
          /\ timers' = {}
          /\ ~state'.alive]_vars

\* the send of a client shut down meanwhile has failed: its batch is queued
\* with nothing left to deliver it
C34_Witness ==
  /\ lastOp = "sendFail"
  /\ ~state.alive
  /\ Len(lastBatch) > 0
  /\ IsPrefix(lastBatch, state.queue)
  /\ ~state.flushing
  /\ state.timer = NoTimer
  /\ timers = {}
  /\ flights = {}


\* ---------------------------------------------------------------------------
\* The transport: one invocation of sendRequest(body, retryCount, retryBaseMs)
\* ---------------------------------------------------------------------------

\* the variables of the scheduler, which the other specifications leave alone
sched == <<opts, state, timers, flights, listeners, ran, thrown, nextId, sent, lastOp, lastBatch>>

\* the scheduler's variables where no client has been constructed
NoClient ==
  /\ opts = NotFollowed
  /\ state = NotFollowed
  /\ timers = {}
  /\ flights = {}
  /\ listeners = {}
  /\ ran = <<>>
  /\ thrown = FALSE
  /\ nextId = 1
  /\ sent = <<>>
  /\ lastOp = "none"
  /\ lastBatch = <<>>

DEFAULTS ==
  [flushMs |-> 5000, maxBatch |-> 20, maxQueue |-> 500,
   retryBaseMs |-> 400, retryCount |-> 2, auto |-> AutoFalse]

RECURSIVE Pow2(_)
\* Math.pow(2, n) for the attempt numbers the loop produces
Pow2(n) == IF n <= 0 THEN 1 ELSE 2 * Pow2(n - 1)

\* what navigator.sendBeacon does when it is reached: "absent" (the property is
\* falsy), "accepts" (returns true), "refuses" (returns false), "throws"
BeaconKinds == {"absent", "accepts", "refuses", "throws"}

\* retryCount and retryBaseMs reach sendRequest unvalidated from the config
RetryCounts == -1 .. MaxRetryCfg
RetryBases == {1, DEFAULTS.retryBaseMs}

\* a fresh invocation: nothing attempted, the promise pending
SendStart(retryCount, retryBaseMs, sameOrigin, beacon) ==
  [retryCount |-> retryCount, retryBaseMs |-> retryBaseMs,
   sameOrigin |-> sameOrigin, beacon |-> beacon,
   pc |-> "start", attempt |-> 0, beacons |-> 0, fetches |-> 0,
   outcomes |-> <<>>, waits |-> <<>>, result |-> "none"]

\* the head of the for loop: another fetch, or fall out and return false
enterLoop(s) ==
  IF s.attempt <= s.retryCount
  THEN [s EXCEPT !.pc = "fetch", !.fetches = @ + 1]
  ELSE [s EXCEPT !.pc = "done", !.result = "false"]

\* attempt++ and back to the loop head
nextAttempt(s) == enterLoop([s EXCEPT !.attempt = @ + 1])

\* a beacon branch that does not look at the origin
beaconStepAnyOrigin(s) ==
  IF s.beacon # "absent"
  THEN IF s.beacon = "accepts"
       THEN [s EXCEPT !.beacons = 1, !.pc = "done", !.result = "true"]
       ELSE enterLoop([s EXCEPT !.beacons = 1])
  ELSE enterLoop(s)

\* the beacon branch, then the first pass through the loop head
beaconStep(s) ==
  IF s.sameOrigin /\ s.beacon # "absent"
  THEN IF s.beacon = "accepts"
       THEN [s EXCEPT !.beacons = 1, !.pc = "done", !.result = "true"]
       ELSE enterLoop([s EXCEPT !.beacons = 1])
  ELSE enterLoop(s)

afterFailedAttemptFinalWait(s) ==
  [s EXCEPT !.pc = "sleep",
            !.waits = Append(@, s.retryBaseMs * Pow2(s.attempt))]

\* the statement after the try/catch of an attempt that did not return
afterFailedAttempt(s) ==
  IF s.attempt < s.retryCount
  THEN [s EXCEPT !.pc = "sleep",
                 !.waits = Append(@, s.retryBaseMs * Pow2(s.attempt))]
  ELSE nextAttempt(s)

\* fetch resolved with a response
onResponse(s, ok) ==
  IF ok
  THEN [s EXCEPT !.outcomes = Append(@, "ok"), !.pc = "done", !.result = "true"]
  ELSE afterFailedAttempt([s EXCEPT !.outcomes = Append(@, "notOk")])

onFetchRejectUncaught(s) ==
  [s EXCEPT !.outcomes = Append(@, "rejects"), !.pc = "done", !.result = "rejected"]

\* fetch threw or rejected: the empty catch, then the statement after it
onFetchReject(s) ==
  afterFailedAttempt([s EXCEPT !.outcomes = Append(@, "rejects")])

InitSend ==
  /\ NoClient
  /\ sr \in {SendStart(rc, base, so, bk) :
               rc \in RetryCounts, base \in RetryBases,
               so \in BOOLEAN, bk \in BeaconKinds}
  /\ ctor = NotFollowed
  /\ dd = NotFollowed
  /\ api = NotFollowed
  /\ split = NotFollowed
  /\ react = NotFollowed

\* sendRequest is called and runs up to its first await or its return
SendCall ==
  /\ sr.pc = "start"
  /\ sr' = beaconStep(sr)
  /\ UNCHANGED <<sched, ctor, dd, api, split, react>>

\* the pending fetch resolves with an ok response
SendFetchOk ==
  /\ sr.pc = "fetch"
  /\ sr' = onResponse(sr, TRUE)
  /\ UNCHANGED <<sched, ctor, dd, api, split, react>>

\* the pending fetch resolves with a non-ok response
SendFetchNotOk ==
  /\ sr.pc = "fetch"
  /\ sr' = onResponse(sr, FALSE)
  /\ UNCHANGED <<sched, ctor, dd, api, split, react>>

\* the pending fetch throws or rejects
SendFetchRejects ==
  /\ sr.pc = "fetch"
  /\ sr' = onFetchReject(sr)
  /\ UNCHANGED <<sched, ctor, dd, api, split, react>>

\* the backoff sleep resolves
SendWake ==
  /\ sr.pc = "sleep"
  /\ sr' = nextAttempt(sr)
  /\ UNCHANGED <<sched, ctor, dd, api, split, react>>

NextSend ==
  \/ SendCall
  \/ SendFetchOk
  \/ SendFetchNotOk
  \/ SendFetchRejects
  \/ SendWake

SpecSend == InitSend /\ [][NextSend]_vars

C12_TransportNeverRejects ==
  /\ sr.result \in {"none", "true", "false"}
  /\ sr.result # "none" <=> sr.pc = "done"

\* the beacon threw, a fetch rejected, a response was non-ok, and the promise
\* resolved
C12_Witness ==
  /\ sr.pc = "done"
  /\ sr.sameOrigin /\ sr.beacon = "throws" /\ sr.beacons = 1
  /\ {"rejects", "notOk"} \subseteq Range(sr.outcomes)
  /\ sr.result \in {"true", "false"}


\* the endpoint is same-origin and navigator.sendBeacon returns true
BeaconAccepts == sr.sameOrigin /\ sr.beacon = "accepts"

\* C35: when the endpoint is same-origin and the beacon reports success,
\* sendRequest returns true at once, with no fetch and no wait; when the
\* endpoint is not same-origin (the beacon is then not even tried), or the
\* beacon is unavailable, throws or reports failure, sendRequest goes through
\* the fetch loop: true only after an ok fetch, false only after retryCount+1
\* failed fetches, and a first fetch whenever retryCount >= 0.
C35_BeaconThenFetch ==
  sr.pc # "start" =>
    /\ sr.beacons = (IF sr.sameOrigin /\ sr.beacon # "absent" THEN 1 ELSE 0)
    /\ IF BeaconAccepts
       THEN /\ sr.pc = "done"
            /\ sr.result = "true"
            /\ sr.fetches = 0
            /\ sr.outcomes = <<>>
            /\ sr.waits = <<>>
       ELSE /\ sr.retryCount >= 0 => sr.fetches >= 1
            /\ sr.result = "true" =>
                 sr.fetches >= 1 /\ sr.outcomes[Len(sr.outcomes)] = "ok"
            /\ sr.result = "false" =>
                 /\ sr.fetches = Max(sr.retryCount + 1, 0)
                 /\ Len(sr.outcomes) = sr.fetches
                 /\ "ok" \notin Range(sr.outcomes)

\* the beacon was accepted on a same-origin endpoint: true, and no fetch
C35_Witness ==
  /\ sr.pc = "done"
  /\ BeaconAccepts
  /\ sr.beacons = 1
  /\ sr.fetches = 0
  /\ sr.result = "true"
  /\ sr.retryCount = MaxRetryCfg


\* ---------------------------------------------------------------------------
\* Construction: one call of init(config)
\* ---------------------------------------------------------------------------

\* JavaScript values, as far as init and the dedupe gate tell them apart
Undefined == [t |-> "undefined"]
Null == [t |-> "null"]
Str(s) == [t |-> "string", v |-> s]
Num(n) == [t |-> "number", k |-> "finite", v |-> n]
NaN == [t |-> "number", k |-> "NaN", v |-> 0]
PosInfinity == [t |-> "number", k |-> "+Infinity", v |-> 0]
NegInfinity == [t |-> "number", k |-> "-Infinity", v |-> 0]
Fn == [t |-> "function"]
Bool(b) == [t |-> "boolean", v |-> b]

\* typeof v
TypeOf(v) == IF v.t = "null" THEN "object" ELSE v.t

\* !!v
Truthy(v) ==
  CASE v.t \in {"undefined", "null"} -> FALSE
    [] v.t = "string" -> v.v # ""
    [] v.t = "number" -> v.k # "NaN" /\ (v.k # "finite" \/ v.v # 0)
    [] v.t = "boolean" -> v.v
    [] OTHER -> TRUE

\* v == null, the test behind ?? and ?.
Nullish(v) == v.t \in {"undefined", "null"}

\* Number.isFinite(v)
IsFinite(v) == v.t = "number" /\ v.k \in {"finite", "fraction", "unsafe"}

\* v <= 0 for a number v (false for NaN)
LessEqZero(v) == v.k = "-Infinity" \/ (v.k = "finite" /\ v.v <= 0)

\* config?.field
Get(config, field) == IF Nullish(config) THEN Undefined ELSE config.f[field]

\* v ?? d, for a numeric option
Coalesce(v, d) == IF Nullish(v) THEN d ELSE v.v

\* config.auto when the option is not given
AutoUndefined == [kind |-> "undefined", flags |-> {}]

\* a validation that asks for the two identifiers only
initThrowsIdsOnly(config) ==
  ~Truthy(Get(config, "projectId")) \/ ~Truthy(Get(config, "botId"))

\* the two validation statements at the top of init
initThrows(config) ==
  \/ ~Truthy(Get(config, "projectId")) \/ ~Truthy(Get(config, "botId"))
  \/ TypeOf(config.f.telegramBotId) # "number"
  \/ ~IsFinite(config.f.telegramBotId)
  \/ LessEqZero(config.f.telegramBotId)

\* the opts object init builds from the config and DEFAULTS
optsOf(config) ==
  [flushMs |-> Coalesce(config.f.flushMs, DEFAULTS.flushMs),
   maxBatch |-> Coalesce(config.f.maxBatch, DEFAULTS.maxBatch),
   maxQueue |-> Coalesce(config.f.maxQueue, DEFAULTS.maxQueue),
   retryBaseMs |-> Coalesce(config.f.retryBaseMs, DEFAULTS.retryBaseMs),
   retryCount |-> Coalesce(config.f.retryCount, DEFAULTS.retryCount),
   auto |-> IF config.f.auto.kind = "undefined" THEN DEFAULTS.auto ELSE config.f.auto]

\* an object with the fields f
Obj(f) == [t |-> "object", f |-> f]

\* the config objects explored
ConfigFields ==
  [projectId : {Undefined, Null, Str(""), Str("p")},
   botId : {Undefined, Str(""), Str("b")},
   telegramBotId : {Undefined, Null, Str("1"), NaN, PosInfinity, NegInfinity,
                    Num(-1), Num(0), Num(1)},
   auth : {Undefined, Fn},
   flushMs : {Undefined},
   maxBatch : {Undefined, Num(MaxBatchCfg)},
   maxQueue : {Undefined},
   retryBaseMs : {Undefined},
   retryCount : {Null},
   auto : {AutoUndefined, AutoObject({"page", "clicks"})}]

\* the arguments init is called with
Configs == {Undefined} \cup {Obj(f) : f \in ConfigFields}

InitCtor ==
  /\ NoClient
  /\ ctor \in [config : Configs, outcome : {"pending"}]
  /\ sr = NotFollowed
  /\ dd = NotFollowed
  /\ api = NotFollowed
  /\ split = NotFollowed
  /\ react = NotFollowed

\* init(config), from the call to the throw or the return of the client
InitCall ==
  /\ ctor.outcome = "pending"
  /\ IF initThrows(ctor.config)
     THEN /\ ctor' = [ctor EXCEPT !.outcome = "threw"]
          /\ UNCHANGED sched
     ELSE /\ ctor' = [ctor EXCEPT !.outcome = "client"]
          /\ opts' = optsOf(ctor.config)
          /\ state' = [(InitWorld.state)' EXCEPT !.cleanupFns = InitCleanupFns']
          /\ timers' = (InitWorld.timers)'
          /\ flights' = (InitWorld.flights)'
          /\ listeners' = InitListeners'
          /\ ran' = [c \in CleanupNames |-> 0]
          /\ thrown' = FALSE
          /\ nextId' = Len((InitWorld.state.queue)') + Cardinality((InitWorld.flights)') + 1
          /\ sent' = <<>>
          /\ lastOp' = "init"
          /\ lastBatch' = <<>>
  /\ UNCHANGED <<sr, dd, api, split, react>>

NextCtor == InitCall

SpecCtor == InitCtor /\ [][NextCtor]_vars

\* an identifier that is missing or empty
IdMissing(v) == v \in {Undefined, Null, Str("")}

\* a finite number greater than 0
FinitePositive(v) == v.t = "number" /\ v.k = "finite" /\ v.v > 0

C15_RequiredOptionsSuffice ==
  ( /\ ctor.outcome # "pending"
    /\ ctor.config.t = "object"
    /\ ctor.config.f.projectId = Str("p")
    /\ ctor.config.f.botId = Str("b")
    /\ ctor.config.f.auth = Fn
    /\ ctor.config.f.telegramBotId = Undefined )
  => ctor.outcome = "client"


\* ---------------------------------------------------------------------------
\* The dedupe gate: shouldSendOnce and markSent on one adapter and one key
\* ---------------------------------------------------------------------------

\* the clock runs from 1 to MaxNow; a ttl is 0..MaxTtl milliseconds
MaxNow == 4
MaxTtl == 2

\* the largest expiry markSent can write
MaxExpiry == MaxNow + MaxTtl

\* JSON.stringify({ expiry: n }) for a finite n
ExpiryText(n) == "{\"expiry\":" \o ToString(n) \o "}"

\* texts found under the key that markSent did not write
ForeignTexts ==
  {"", "not json", "null", "5", "{}", "{\"expiry\":null}", "{\"expiry\":true}",
   "{\"expiry\":\"soon\"}", "{\"expiry\":\"" \o ToString(MaxExpiry) \o "\"}",
   ExpiryText(0), ExpiryText(2), ExpiryText(MaxExpiry)}

\* JSON.parse(text): [ok |-> FALSE] when it throws
JSONparse(text) ==
  IF \E n \in 0 .. MaxExpiry : text = ExpiryText(n)
  THEN [ok |-> TRUE,
        v |-> Obj([expiry |-> Num(CHOOSE n \in 0 .. MaxExpiry : text = ExpiryText(n))])]
  ELSE CASE text = "null" -> [ok |-> TRUE, v |-> Null]
         [] text = "5" -> [ok |-> TRUE, v |-> Num(5)]
         [] text = "{}" -> [ok |-> TRUE, v |-> Obj([expiry |-> Undefined])]
         [] text = "{\"expiry\":null}" -> [ok |-> TRUE, v |-> Obj([expiry |-> Null])]
         [] text = "{\"expiry\":true}" -> [ok |-> TRUE, v |-> Obj([expiry |-> Bool(TRUE)])]
         [] text = "{\"expiry\":\"soon\"}" -> [ok |-> TRUE, v |-> Obj([expiry |-> Str("soon")])]
         [] text = "{\"expiry\":\"" \o ToString(MaxExpiry) \o "\"}" ->
              [ok |-> TRUE, v |-> Obj([expiry |-> Str(ToString(MaxExpiry))])]
         [] OTHER -> [ok |-> FALSE, v |-> Undefined]

\* v.name
Prop(v, name) == IF v.t = "object" THEN v.f[name] ELSE Undefined

\* Number(v)
ToNumber(v) ==
  CASE v.t = "number" -> v
    [] v.t = "undefined" -> NaN
    [] v.t = "null" -> Num(0)
    [] v.t = "boolean" -> IF v.v THEN Num(1) ELSE Num(0)
    [] v.t = "string" ->
         IF v.v = "" THEN Num(0)
         ELSE IF \E n \in 0 .. MaxExpiry : v.v = ToString(n)
              THEN Num(CHOOSE n \in 0 .. MaxExpiry : v.v = ToString(n))
              ELSE NaN
    [] OTHER -> NaN

\* a comparison that lets the record live through its expiry instant
GreaterEqStrict(now, x) ==
  CASE x.k = "finite" -> now > x.v
    [] x.k = "-Infinity" -> TRUE
    [] OTHER -> FALSE

\* now >= x for a number x
GreaterEq(now, x) ==
  CASE x.k = "finite" -> now >= x.v
    [] x.k = "-Infinity" -> TRUE
    [] OTHER -> FALSE

\* a read failure that reaches the caller
answerOnGetFailureUncaught == "rejected"

\* shouldSendOnce's outer catch
answerOnGetFailure == "true"

\* shouldSendOnce after the await: raw is what adapter.get gave
answerFor(raw, now) ==
  IF ~Truthy(raw) THEN "true"
  ELSE LET parsed == JSONparse(raw.v)
       IN IF ~parsed.ok THEN "true"
          ELSE IF ~Truthy(parsed.v) \/ ~Truthy(Prop(parsed.v, "expiry")) THEN "true"
          ELSE IF GreaterEq(now, ToNumber(Prop(parsed.v, "expiry"))) THEN "true"
          ELSE "false"

\* markSent's catch
resultOnSetFailure == "resolved"

\* how a call of an adapter method ends
Hows == {"returns", "throws", "rejects"}

\* who wrote the value under the key last
NotWritten == [by |-> "nobody", at |-> 0, ttl |-> 0]
WrittenElsewhere == [by |-> "elsewhere", at |-> 0, ttl |-> 0]
Marked(at, ttl) == [by |-> "markSent", at |-> at, ttl |-> ttl]

\* dd.done is what the last step settled: nothing, for a step that settles no promise
NoOp == [op |-> "none", result |-> "none", how |-> "returns", raw |-> Null,
         seen |-> NotWritten, now |-> 0]

InitDedupe ==
  /\ NoClient
  /\ dd = [now |-> 1, store |-> Null, last |-> NotWritten, pending |-> {}, done |-> NoOp]
  /\ sr = NotFollowed
  /\ ctor = NotFollowed
  /\ api = NotFollowed
  /\ split = NotFollowed
  /\ react = NotFollowed

\* time passes
DdTick ==
  /\ dd.now < MaxNow
  /\ dd' = [dd EXCEPT !.now = @ + 1, !.done = NoOp]
  /\ UNCHANGED <<sched, sr, ctor, api, split, react>>

\* something other than markSent writes the key
DdForeignWrite ==
  \E text \in ForeignTexts :
    /\ dd' = [dd EXCEPT !.store = Str(text), !.last = WrittenElsewhere, !.done = NoOp]
    /\ UNCHANGED <<sched, sr, ctor, api, split, react>>

\* shouldSendOnce is called while no other call of it is suspended:
\* adapter.get runs, the function suspends at its await
DdShouldCall ==
  \E how \in Hows :
    /\ dd.pending = {}
    /\ dd' = [dd EXCEPT !.pending = {[how |-> how,
                                      raw |-> IF how = "returns" THEN dd.store ELSE Undefined,
                                      seen |-> dd.last]},
                        !.done = NoOp]
    /\ UNCHANGED <<sched, sr, ctor, api, split, react>>

\* shouldSendOnce resumes after the await and settles its promise
DdShouldSettle ==
  \E p \in dd.pending :
    /\ dd' = [dd EXCEPT !.pending = @ \ {p},
                        !.done = [op |-> "shouldSendOnce",
                                  result |-> IF p.how = "returns"
                                             THEN answerFor(p.raw, dd.now)
                                             ELSE answerOnGetFailure,
                                  how |-> p.how, raw |-> p.raw, seen |-> p.seen,
                                  now |-> dd.now]]
    /\ UNCHANGED <<sched, sr, ctor, api, split, react>>

\* markSent(adapter, key, ttl), from the call to the settling of its promise
DdMarkSent ==
  \E ttl \in 0 .. MaxTtl, how \in Hows :
    /\ dd' = [dd EXCEPT
                !.store = IF how = "returns" THEN Str(ExpiryText(dd.now + ttl)) ELSE @,
                !.last = IF how = "returns" THEN Marked(dd.now, ttl) ELSE @,
                !.done = [op |-> "markSent",
                          result |-> IF how = "returns" THEN "resolved"
                                     ELSE resultOnSetFailure,
                          how |-> how, raw |-> Null, seen |-> dd.last, now |-> dd.now]]
    /\ UNCHANGED <<sched, sr, ctor, api, split, react>>

NextDedupe ==
  \/ DdTick
  \/ DdForeignWrite
  \/ DdShouldCall
  \/ DdShouldSettle
  \/ DdMarkSent

SpecDedupe == InitDedupe /\ [][NextDedupe]_vars

\* a shouldSendOnce whose adapter.get returned has just settled
Answered == dd.done.op = "shouldSendOnce" /\ dd.done.how = "returns"

\* C17: on a key only markSent writes, shouldSendOnce returns true before any
\* markSent, false at every time before writeTime + ttl of the last markSent,
\* and true again from writeTime + ttl on.
C17_SuppressedUntilExpiry ==
  Answered =>
    /\ dd.done.seen.by = "nobody" => dd.done.result = "true"
    /\ dd.done.seen.by = "markSent" =>
         (dd.done.result = "false" <=> dd.done.now < dd.done.seen.at + dd.done.seen.ttl)
    /\ dd.done.seen.by = "markSent" =>
         (dd.done.result = "true" <=> dd.done.now >= dd.done.seen.at + dd.done.seen.ttl)

\* a record answered exactly at its expiry instant, after time has passed
C17_Witness ==
  /\ Answered
  /\ dd.done.seen.by = "markSent"
  /\ dd.done.seen.ttl > 0
  /\ dd.done.now = dd.done.seen.at + dd.done.seen.ttl
  /\ dd.done.result = "true"

\* the stored text is a record { expiry: n } with a number n
NumericExpiryLaterThan(raw, now) ==
  /\ raw.t = "string"
  /\ \E n \in 0 .. MaxExpiry : raw.v = ExpiryText(n) /\ n > now

\* C18: shouldSendOnce returns false only for a stored well-formed record whose
\* expiry is a number later than now, and true for every other stored value.
C18_FalseOnlyForLiveNumericRecord ==
  Answered =>
    (dd.done.result = "false" <=> NumericExpiryLaterThan(dd.done.raw, dd.done.now))

\* C19: when adapter.get throws or rejects shouldSendOnce resolves to true,
\* when adapter.set throws or rejects markSent resolves, and neither ever
\* throws or rejects.
C19_DedupeFailsOpen ==
  /\ dd.done.result # "rejected"
  /\ (dd.done.op = "shouldSendOnce" /\ dd.done.how # "returns") => dd.done.result = "true"
  /\ dd.done.op = "markSent" => dd.done.result = "resolved"

\* a live record is stored and the read of it fails: the answer is true
C19_Witness ==
  /\ dd.done.op = "shouldSendOnce"
  /\ dd.done.how = "rejects"
  /\ dd.done.seen.by = "markSent"
  /\ dd.done.now < dd.done.seen.at + dd.done.seen.ttl
  /\ dd.done.result = "true"


\* ---------------------------------------------------------------------------
\* The client as the application and the transport see it: the events as
\* pushEvent builds them, the bodies handed to fetch, and the promises
\* client.flush() returns. The client followed here is never shut down.
\* ---------------------------------------------------------------------------

\* calls of track, page and interaction in one run
MaxTracks == 2

SDK_NAME == "metriox-tg-webapp"
SDK_VERSION == "1.0.0"

\* A property map is a set of <<key, value>> pairs with distinct keys.

clampString(value, maxLen) ==
  IF value.t # "string" THEN value
  ELSE IF Len(value.v) <= maxLen THEN value
  ELSE Str(SubSeq(value.v, 1, maxLen))

\* String(v) for a number v
NumberText(v) ==
  CASE v.k = "NaN" -> "NaN"
    [] v.k = "+Infinity" -> "Infinity"
    [] v.k = "-Infinity" -> "-Infinity"
    [] v.k = "fraction" -> ToString(v.v) \o "." \o ToString(v.d)
    [] v.k = "unsafe" -> "9007199254740992"
    [] OTHER -> ToString(v.v)

\* Number.isInteger(v) && Number.isSafeInteger(v): the numbers of kind
\* "finite" are integers far below 2^53
IsSafeInteger(v) == v.k = "finite"

\* the number v.d (v and d digits, d # 0), e.g. 1.5
Frac(v, d) == [t |-> "number", k |-> "fraction", v |-> v, d |-> d]

\* 2^53, the first integer that is not a safe integer
Unsafe == [t |-> "number", k |-> "unsafe", v |-> 0]

Sym == [t |-> "symbol"]
BigInt(n) == [t |-> "bigint", v |-> n]

\* an object that refers to itself; bare: created by Object.create(null), so
\* without Object.prototype and its toString
Cyclic(bare) == [t |-> "object", f |-> <<>>, cyclic |-> TRUE, bare |-> bare]

IsCyclic(v) == v.t = "object" /\ "cyclic" \in DOMAIN v

\* how a call ended: with a value, or by throwing
Returned(v) == [threw |-> FALSE, v |-> v]
Threw == [threw |-> TRUE]

\* the values JSON.stringify leaves out of an object
Unserialisable(v) == v.t \in {"undefined", "function", "symbol"}

\* the text JSON.stringify gives for a value it serialises
RECURSIVE JSONtext(_)
JSONtext(v) ==
  LET RECURSIVE Members(_)
      Members(keys) ==
        IF keys = {} THEN ""
        ELSE LET k == CHOOSE x \in keys : TRUE
                 rest == Members(keys \ {k})
             IN "\"" \o k \o "\":" \o JSONtext(v.f[k])
                  \o (IF rest = "" THEN "" ELSE "," \o rest)
  IN CASE v.t = "string" -> "\"" \o v.v \o "\""
       [] v.t = "boolean" -> IF v.v THEN "true" ELSE "false"
       [] v.t = "null" -> "null"
       [] v.t = "number" ->
            IF v.k \in {"NaN", "+Infinity", "-Infinity"} THEN "null" ELSE NumberText(v)
       [] v.t = "object" ->
            "{" \o Members({k \in DOMAIN v.f : ~Unserialisable(v.f[k])}) \o "}"

\* JSON.stringify(v): undefined for a function or a symbol, a TypeError for a
\* BigInt or a circular structure, the JSON text otherwise
JSONstringify(v) ==
  CASE Unserialisable(v) -> Returned(Undefined)
    [] v.t = "bigint" -> Threw
    [] IsCyclic(v) -> Threw
    [] OTHER -> Returned(Str(JSONtext(v)))

\* String(v) for the values whose JSON.stringify throws: the digits of a
\* BigInt, Object.prototype.toString for an object that inherits it, and a
\* TypeError for an object that has no toString at all
StringOf(v) ==
  CASE v.t = "bigint" -> Returned(Str(ToString(v.v)))
    [] v.t = "object" -> IF v.bare THEN Threw ELSE Returned(Str("[object Object]"))

BucketNames == {"PropsString", "PropsLong", "PropsBool"}

\* the bucket splitProps puts a value that is neither null nor undefined into
BucketOf(v) ==
  CASE v.t = "string" -> "PropsString"
    [] v.t = "boolean" -> "PropsBool"
    [] v.t = "number" -> IF IsSafeInteger(v) THEN "PropsLong" ELSE "PropsString"
    [] OTHER -> "PropsString"

\* try { JSON.stringify(v) } catch { String(v) }
Stringified(v) == IF JSONstringify(v).threw THEN StringOf(v) ELSE JSONstringify(v)

\* the loop body throws for v: the String(v) of the catch block threw
EntryThrows(v) ==
  /\ ~Nullish(v)
  /\ v.t \notin {"string", "boolean", "number"}
  /\ Stringified(v).threw

\* what it stores there
StoredAs(v) ==
  CASE v.t = "string" -> clampString(v, 2048)
    [] v.t = "boolean" -> v
    [] v.t = "number" ->
         IF IsSafeInteger(v) THEN v ELSE clampString(Str(NumberText(v)), 2048)
    [] OTHER -> clampString(Stringified(v).v, 2048)

\* splitProps throws: some entry's loop body does
splitPropsThrows(props) == \E p \in props : EntryThrows(p[2])

\* what splitProps returns when it does not throw: the non-empty buckets, as a
\* set of <<bucket, map>> pairs
splitProps(props) ==
  LET kept == {p \in props : ~Nullish(p[2])}
      bucket(b) == {<<p[1], StoredAs(p[2])>> : p \in {q \in kept : BucketOf(q[2]) = b}}
  IN {<<b, bucket(b)>> : b \in {c \in BucketNames : bucket(c) # {}}}

\* baseProps: Object.assign({}, extra) with sdk and sdk_version set
baseProps(extra) ==
  {p \in extra : p[1] \notin {"sdk", "sdk_version"}}
    \cup {<<"sdk", Str(SDK_NAME)>>, <<"sdk_version", Str(SDK_VERSION)>>}

\* the event object pushEvent hands to enqueue (EventDate left out)
NewEvent(id, eventType, eventName, props, text) ==
  [EventId |-> id, EventType |-> eventType, EventName |-> eventName, Text |-> text,
   Props |-> splitProps(baseProps(props))]

\* the bucket b of an event, as a map
PropsIn(evt, b) == UNION {p[2] : p \in {q \in evt.Props : q[1] = b}}

\* v ?? d
OrElse(v, d) == IF Nullish(v) THEN d ELSE v

\* an SDK that reads the Telegram global only
resolveInitDataGlobalOnly(auth, returned, tg) == OrElse(tg, Str(""))

\* a resolveInitData that never calls a provider
resolveInitDataNoProvider(auth, returned, tg) ==
  IF Truthy(auth) /\ TypeOf(auth) = "object"
  THEN OrElse(Prop(auth, "initData"), Str(""))
  ELSE OrElse(tg, Str(""))

\* resolveInitData: `returned` is what the provider returned when auth is a
\* function, `tg` is globalThis.Telegram?.WebApp?.initData
resolveInitData(auth, returned, tg) ==
  IF TypeOf(auth) = "function"
  THEN OrElse(IF Nullish(returned) THEN Undefined ELSE Prop(returned, "initData"), Str(""))
  ELSE IF Truthy(auth) /\ TypeOf(auth) = "object"
       THEN OrElse(Prop(auth, "initData"), Str(""))
       ELSE OrElse(tg, Str(""))

\* the body flush hands to sendRequest
Body(initData, events) ==
  [ProjectId |-> "p", BotId |-> "b",
   Auth |-> [TelegramBotId |-> 1, InitData |-> IF Truthy(initData) THEN initData ELSE Str("")],
   Events |-> events]

\* the calls of track explored: name, props and options
TrackCalls ==
  {[name |-> "evt", props |-> {<<"hello", Str("world")>>},
    text |-> Undefined, dedupe |-> "once"],
   [name |-> "other", props |-> {<<"n", Num(5)>>, <<"flag", Bool(TRUE)>>, <<"nil", Null>>},
    text |-> Str("t"), dedupe |-> "none"]}

\* the auth option and the Telegram global of the runs explored, and the
\* storage adapter the application passes as config.dedupe.adapter: one that
\* keeps what it is given, or one whose get and set throw on every call. init
\* reads no dedupe option, so the adapter stays with the application
AuthSetups ==
  {[auth |-> Fn, tg |-> Undefined, adapter |-> "memory"],
   [auth |-> Obj([initData |-> Str("xyz")]), tg |-> Undefined, adapter |-> "memory"],
   [auth |-> Undefined, tg |-> Str("tg"), adapter |-> "memory"],
   [auth |-> Fn, tg |-> Undefined, adapter |-> "throws"]}

\* what a callable provider returns
AuthReturns == {Obj([initData |-> Str("xyz")]), Obj([initData |-> Undefined]), Undefined}

ClientOptions ==
  [maxBatch : {1, MaxBatchCfg}, maxQueue : {1, MaxQueueCfg}, retryCount : {0, MaxRetryCfg},
   auto : {AutoFalse, AutoObject({"page"})}]

\* attachAuto's client.page("page_view", { path, title })
PageViewEvent ==
  NewEvent(1, "page", "page_view", {<<"path", Str("/")>>, <<"title", Str("app")>>}, Undefined)

ClientInitWorld ==
  LET w == [state |-> NewState, timers |-> {}, flights |-> {}]
  IN IF AutoTruthy(opts.auto) /\ "page" \in mergeAuto(opts.auto)
     THEN enqueue(w, PageViewEvent) ELSE w

\* api.scenario follows the run "track calls, then one awaited flush, with a
\* transport that succeeds": "tracking" while only track has been called,
\* "flushing" while that flush is awaited, "done" when it has fulfilled after
\* one ok fetch, "off" once anything else has happened. Within that run
\* api.tracks lists the calls of track with the events built for them and
\* api.calls the bodies handed to fetch; both are dropped when the run is left.
\* api.yielded is the initData the configured source gave to the flush of the run.
\* api.held: the application holds the promise of the suspended flush();
\* api.settled: how the last promise it held ended.
InitClient ==
  /\ opts \in ClientOptions
  /\ state = [ClientInitWorld.state EXCEPT !.cleanupFns = InitCleanupFns]
  /\ timers = ClientInitWorld.timers
  /\ flights = ClientInitWorld.flights
  /\ listeners = InitListeners
  /\ ran = [c \in CleanupNames |-> 0]
  /\ thrown = FALSE
  /\ nextId = Len(ClientInitWorld.state.queue) + Cardinality(ClientInitWorld.flights) + 1
  /\ sent = <<>>
  /\ lastOp = "init"
  /\ lastBatch = <<>>
  /\ sr = NotFollowed
  /\ ctor = NotFollowed
  /\ split = NotFollowed
  /\ react = NotFollowed
  /\ dd = [now |-> 1, store |-> Null, last |-> NotWritten, pending |-> {}, done |-> NoOp]
  /\ \E a \in AuthSetups :
       api = [auth |-> a.auth, tg |-> a.tg, adapter |-> a.adapter,
              calls |-> <<>>, tracks |-> <<>>,
              yielded |-> Undefined,
              scenario |-> "tracking", held |-> FALSE, settled |-> "none"]

\* the scenario is left
Off(a) ==
  [a EXCEPT !.scenario = "off", !.tracks = <<>>, !.calls = <<>>, !.yielded = Undefined]

\* the initData of the configured source: the provider's return value, the
\* auth object, or the Telegram global
Yielded(auth, returned, tg) ==
  IF TypeOf(auth) = "function" THEN Prop(returned, "initData")
  ELSE IF TypeOf(auth) = "object" THEN Prop(auth, "initData")
  ELSE tg

\* the step starts a flush() invocation
StartsFlight(w) == w.flights # flights

\* client.track(name, props, options), as index.ts defines it: options.text is
\* read, options.dedupe is not, and the dedupe store is never touched
ClientTrack ==
  \E c \in TrackCalls :
    /\ nextId <= MaxTracks
    /\ LET evt == NewEvent(nextId, "custom", c.name, c.props, c.text)
           w == enqueue(World, evt)
       IN /\ Becomes(w)
          /\ api' = [(IF api.scenario = "tracking"
                       THEN [api EXCEPT !.tracks = Append(@, [dedupe |-> c.dedupe, evt |-> evt])]
                       ELSE Off(api))
                        EXCEPT !.held = IF StartsFlight(w) THEN FALSE ELSE @]
    /\ nextId' = nextId + 1
    /\ lastOp' = "custom"
    /\ lastBatch' = <<>>
    /\ thrown' = FALSE
    /\ UNCHANGED <<opts, listeners, ran, sent, sr, ctor, dd, split, react>>

\* client.flush() called by the application, which keeps the promise
ClientFlush ==
  LET w == flush(World)
  IN /\ Becomes(w)
     /\ api' = IF StartsFlight(w)
               THEN IF api.scenario = "tracking"
                    THEN [api EXCEPT !.held = TRUE, !.scenario = "flushing"]
                    ELSE [Off(api) EXCEPT !.held = TRUE]
               ELSE [Off(api) EXCEPT !.settled = "fulfilled"]
     /\ lastOp' = "flush"
     /\ lastBatch' = <<>>
     /\ thrown' = FALSE
     /\ UNCHANGED <<opts, listeners, ran, nextId, sent, sr, ctor, dd, split, react>>

\* the setTimeout callback of scheduleFlush; nobody keeps its flush() promise
ClientTimerFire ==
  \E h \in timers :
    LET w == flush([World EXCEPT !.timers = @ \ {h}, !.state.timer = NoTimer])
    IN /\ Becomes(w)
       /\ api' = [Off(api) EXCEPT !.held = IF StartsFlight(w) THEN FALSE ELSE @]
       /\ lastOp' = "timer"
       /\ lastBatch' = <<>>
       /\ thrown' = FALSE
       /\ UNCHANGED <<opts, listeners, ran, nextId, sent, sr, ctor, dd, split, react>>

\* resolveInitData resolves: flush builds the body and sendRequest issues its
\* first fetch
ClientAuthResolved ==
  \E f \in flights, r \in AuthReturns :
    /\ f.pc = "auth"
    /\ flights' = (flights \ {f}) \cup {[f EXCEPT !.pc = "fetch"]}
    /\ api' = IF api.scenario = "off" THEN api
              ELSE [api EXCEPT !.calls = Append(@, Body(resolveInitData(api.auth, r, api.tg),
                                                         f.events)),
                               !.yielded = Yielded(api.auth, r, api.tg)]
    /\ lastOp' = "send"
    /\ lastBatch' = f.events
    /\ UNCHANGED <<opts, state, timers, listeners, ran, thrown, nextId, sent, sr, ctor, dd, split, react>>

\* a callable auth provider throws or rejects: flush() leaves through its
\* finally and its promise rejects
ClientAuthFailed ==
  \E f \in flights :
    /\ f.pc = "auth"
    /\ TypeOf(api.auth) = "function"
    /\ Becomes(flushAbort([World EXCEPT !.flights = @ \ {f}]))
    /\ api' = [Off(api) EXCEPT !.held = FALSE,
                               !.settled = IF api.held THEN "rejected" ELSE @]
    /\ lastOp' = "authFail"
    /\ lastBatch' = f.events
    /\ UNCHANGED <<opts, listeners, ran, thrown, nextId, sent, sr, ctor, dd, split, react>>

\* fetch resolves with res.ok: sendRequest returns true, flush() fulfils
ClientFetchOk ==
  \E f \in flights :
    /\ f.pc = "fetch"
    /\ Becomes(flushResume([World EXCEPT !.flights = @ \ {f}], f.events, TRUE))
    /\ sent' = sent \o f.events
    /\ api' = [(IF api.scenario = "flushing" THEN [api EXCEPT !.scenario = "done"] ELSE Off(api))
                  EXCEPT !.held = FALSE,
                         !.settled = IF api.held THEN "fulfilled" ELSE @]
    /\ lastOp' = "sendOk"
    /\ lastBatch' = f.events
    /\ UNCHANGED <<opts, listeners, ran, thrown, nextId, sr, ctor, dd, split, react>>

\* fetch fails and retries are left: sendRequest sleeps
ClientFetchFailRetry ==
  \E f \in flights :
    /\ f.pc = "fetch"
    /\ f.attempt < opts.retryCount
    /\ flights' = (flights \ {f}) \cup {[f EXCEPT !.pc = "sleep"]}
    /\ api' = Off(api)
    /\ lastOp' = "retry"
    /\ lastBatch' = f.events
    /\ UNCHANGED <<opts, state, timers, listeners, ran, thrown, nextId, sent, sr, ctor, dd, split, react>>

\* the backoff ends: the same body goes to fetch again
ClientBackoffElapsed ==
  \E f \in flights :
    /\ f.pc = "sleep"
    /\ flights' = (flights \ {f}) \cup {[f EXCEPT !.pc = "fetch", !.attempt = @ + 1]}
    /\ api' = Off(api)
    /\ lastOp' = "fetch"
    /\ lastBatch' = f.events
    /\ UNCHANGED <<opts, state, timers, listeners, ran, thrown, nextId, sent, sr, ctor, dd, split, react>>

\* the last attempt fails: sendRequest returns false, flush() requeues and
\* fulfils
ClientFetchFailFinal ==
  \E f \in flights :
    /\ f.pc = "fetch"
    /\ f.attempt >= opts.retryCount
    /\ Becomes(flushResume([World EXCEPT !.flights = @ \ {f}], f.events, FALSE))
    /\ api' = [Off(api) EXCEPT !.held = FALSE,
                               !.settled = IF api.held THEN "fulfilled" ELSE @]
    /\ lastOp' = "sendFail"
    /\ lastBatch' = f.events
    /\ UNCHANGED <<opts, listeners, ran, thrown, nextId, sent, sr, ctor, dd, split, react>>

\* the methods of the client object init returns
ClientMethods == {"track", "page", "interaction", "flush", "shutdown"}

\* client[method](...) throws a TypeError: the client has no such method
CallThrows(method) == method \notin ClientMethods

\* the application calls client.clearDedupeKey(key): the call expression
\* throws in the application's code, and no code of the client runs
ClientClearDedupeKey ==
  /\ CallThrows("clearDedupeKey")
  /\ api' = Off(api)
  /\ lastOp' = "TypeError"
  /\ lastBatch' = <<>>
  /\ UNCHANGED <<opts, state, timers, flights, listeners, ran, thrown, nextId, sent, sr, ctor,
                 dd, split, react>>

NextClient ==
  \/ ClientTrack
  \/ ClientClearDedupeKey
  \/ ClientFlush
  \/ ClientTimerFire
  \/ ClientAuthResolved
  \/ ClientAuthFailed
  \/ ClientFetchOk
  \/ ClientFetchFailRetry
  \/ ClientBackoffElapsed
  \/ ClientFetchFailFinal

SpecClient == InitClient /\ [][NextClient]_vars

ScenarioEvents == [i \in 1 .. Len(api.tracks) |-> api.tracks[i].evt]

\* the properties of the explored track calls sit in the buckets of their types
Classified(e) ==
  /\ <<"sdk", Str(SDK_NAME)>> \in PropsIn(e, "PropsString")
  /\ e.EventName = "evt" =>
       /\ <<"hello", Str("world")>> \in PropsIn(e, "PropsString")
       /\ PropsIn(e, "PropsLong") = {} /\ PropsIn(e, "PropsBool") = {}
  /\ e.EventName = "other" =>
       /\ PropsIn(e, "PropsLong") = {<<"n", Num(5)>>}
       /\ PropsIn(e, "PropsBool") = {<<"flag", Bool(TRUE)>>}
       /\ \A p \in PropsIn(e, "PropsString") : p[1] # "nil"

\* k track calls were followed by an awaited flush that fulfilled after one ok
\* fetch, with 1 <= k < maxBatch and an auth source that yielded a string
TracksThenFlushDone ==
  /\ api.scenario = "done"
  /\ Len(api.tracks) >= 1
  /\ Len(api.tracks) < opts.maxBatch
  /\ api.yielded.t = "string"

\* one fetch, with the yielded initData and exactly the tracked events; nothing queued
OneCallWithTheTrackedEvents ==
  /\ Len(api.calls) = 1
  /\ api.calls[1].Auth.InitData = api.yielded
  /\ api.calls[1].Events = ScenarioEvents
  /\ \A i \in 1 .. Len(api.calls[1].Events) : Classified(api.calls[1].Events[i])
  /\ state.queue = <<>>

\* C16 as stated: after init with a valid config whose auth yields initData
\* v, k track calls (1 <= k < maxBatch) and an awaited flush with a succeeding
\* transport give exactly one transport call with Auth.InitData = v and exactly
\* those k events with their classified properties, and an empty queue.
C16_TracksThenFlushSendsThem == TracksThenFlushDone => OneCallWithTheTrackedEvents

\* C16 amended: the same, for k <= maxQueue and automatic page tracking off.
C16_TracksThenFlushSendsThemWithinQueue ==
  ( /\ TracksThenFlushDone
    /\ Len(api.tracks) <= opts.maxQueue
    /\ "page" \notin mergeAuto(opts.auto) )
  => OneCallWithTheTrackedEvents

\* two track calls, a provider function that returned xyz, and the flush done
C16_Witness ==
  /\ TracksThenFlushDone
  /\ Len(api.tracks) = 2
  /\ Len(api.tracks) <= opts.maxQueue
  /\ "page" \notin mergeAuto(opts.auto)
  /\ api.auth = Fn
  /\ api.calls[1].Auth.InitData = Str("xyz")
  /\ api.tracks[1].evt.EventName = "evt"

\* the events of that name in the queue or in the batch of a suspended flush
HeldByName(name) ==
  {e \in Range(state.queue) \cup UNION {Range(f.events) : f \in flights} : e.EventName = name}

\* C20: two track calls of the same name with dedupe once or session in effect
\* yield exactly one queued event and one stored dedupe record.
C20_DedupedNameQueuedOnce ==
  ( /\ api.scenario = "tracking"
    /\ Len(api.tracks) = 2
    /\ api.tracks[1].evt.EventName = api.tracks[2].evt.EventName
    /\ api.tracks[1].dedupe \in {"once", "session"}
    /\ api.tracks[2].dedupe \in {"once", "session"} )
  => /\ Cardinality(HeldByName(api.tracks[1].evt.EventName)) = 1
     /\ dd.store # Null


\* A flush() suspended at "auth" has called resolveInitData, which has read the
\* auth option and, when it is callable, invoked it and awaits what it returned.

\* the resolution of the auth payload in one step: it begins only in the step
\* that starts a flush, for a batch that has left the queue; it ends only in the
\* send of that flush or in the provider's failure; the backoff and the retries
\* hand no new body to fetch; and the body carries the initData of the
\* configured source, or the empty string when that is missing
AuthAtFlush ==
  /\ \A f \in flights' :
       f.pc = "auth" =>
         /\ f.attempt = 0
         /\ Range(f.events) \cap Range(state'.queue) = {}
         /\ f \in flights \/ (flights = {} /\ f.events = StartedBatch)
  /\ \A f \in flights :
       (f.pc = "auth" /\ f \notin flights') =>
         \/ lastOp' = "send" /\ [f EXCEPT !.pc = "fetch"] \in flights'
         \/ lastOp' = "authFail" /\ TypeOf(api.auth) = "function"
  /\ lastOp' = "send" => \E f \in flights : f.pc = "auth" /\ f \notin flights'
  /\ api'.scenario # "off" =>
       /\ api'.calls # api.calls =>
            lastOp' = "send" /\ Len(api'.calls) = Len(api.calls) + 1
       /\ lastOp' = "send" =>
            LET sentData == api'.calls[Len(api'.calls)].Auth.InitData
                source == IF TypeOf(api.auth) = "function" THEN "provider"
                          ELSE IF api.auth.t = "object" THEN "object" ELSE "global"
            IN /\ sentData.t = "string"
               /\ sentData = (IF api'.yielded.t = "string" THEN api'.yielded ELSE Str(""))
               /\ source = "object" => api'.yielded = api.auth.f.initData
               /\ source = "global" => api'.yielded = api.tg
               /\ source = "provider" =>
                    api'.yielded \in {Prop(r, "initData") : r \in AuthReturns}

\* C36 as stated: the auth payload is resolved once per started flush, after
\* the batch is removed from the queue and before the transport is called, not
\* once per retry, and never at init: when init returns no resolution has begun.
C36_AuthPerFlushNeverAtInit ==
  /\ lastOp = "init" => \A f \in flights : f.pc # "auth"
  /\ [][AuthAtFlush]_vars

\* C36 amended: the same without the last part; init itself resolves nothing,
\* but the flush that the page_view event of auto.page starts inside init (when
\* maxBatch is 1) resolves the auth payload before init returns.
C36_AuthPerFlush == [][AuthAtFlush]_vars

\* a callable provider returned an object without initData and the body went
\* to fetch with the empty string
C36_Witness ==
  /\ lastOp = "send"
  /\ api.auth = Fn
  /\ api.scenario # "off"
  /\ Len(api.calls) >= 1
  /\ api.yielded = Undefined
  /\ api.calls[Len(api.calls)].Auth.InitData = Str("")
  /\ \E f \in flights : f.pc = "fetch" /\ f.attempt = 0 /\ f.events = lastBatch

\* C21: the client exposes clearDedupeKey(key): it removes the record through
\* adapter.remove or overwrites it with an expired one, never throws, and the
\* next once-only send for the key is delivered again. Stated for its first
\* part: no call of client.clearDedupeKey ends in a TypeError.
C21_ClearDedupeKeyNeverThrows == lastOp # "TypeError"

\* the events in the queue or in the batch of a suspended flush
Held == Range(state.queue) \cup UNION {Range(f.events) : f \in flights}

\* the event built for the last track call of the run
LastTracked == api.tracks[Len(api.tracks)].evt

\* C22: with a storage adapter whose get and set throw on every call,
\* track(name, props, {dedupe: "once"}) does not throw, the event is enqueued,
\* and a following flush that completes has made a transport call that
\* contains it.
C22_FailingAdapterStillDelivers ==
  api.adapter = "throws" =>
    /\ lastOp = "custom" =>
         /\ ~thrown
         /\ \E e \in Held : e.EventId = nextId - 1
    /\ (api.scenario = "tracking" /\ Len(api.tracks) >= 1 /\ lastOp = "custom") =>
         LastTracked \in Held
    /\ (api.scenario = "done" /\ Len(api.tracks) >= 1) =>
         /\ Len(api.calls) >= 1
         /\ LastTracked \in Range(api.calls[Len(api.calls)].Events)

\* the adapter throws, track("evt", {hello: "world"}, {dedupe: "once"}) was
\* called, and the awaited flush sent the event
C22_Witness ==
  /\ api.adapter = "throws"
  /\ api.scenario = "done"
  /\ Len(api.tracks) = 1
  /\ api.tracks[1].dedupe = "once"
  /\ api.tracks[1].evt.EventName = "evt"
  /\ ~thrown
  /\ Len(api.calls) = 1
  /\ api.calls[1].Events = <<api.tracks[1].evt>>
  /\ dd.store = Null


\* ---------------------------------------------------------------------------
\* splitProps alone: one call on one property map.
\* ---------------------------------------------------------------------------

\* keys of the property maps explored
MaxProps == 2

PropKeys == {"k" \o ToString(i) : i \in 1 .. MaxProps}

\* the property values explored: every branch of the loop body, and every way
\* its last branch can end
PropValues ==
  {Str("x"), Str(""), Bool(TRUE), Bool(FALSE), Num(5), Num(0), Frac(1, 5), Unsafe, NaN,
   PosInfinity, Null, Undefined, Obj([a |-> Num(1), cb |-> Fn]), Fn, Sym, BigInt(7),
   Cyclic(FALSE), Cyclic(TRUE)}

\* the property maps over these keys and values
PropMaps ==
  UNION {{{<<k, f[k]>> : k \in K} : f \in [K -> PropValues]} : K \in SUBSET PropKeys}

NoProps == {}

InitProps ==
  /\ NoClient
  /\ split \in [props : PropMaps, passed : {TRUE}, call : {"pending"}, out : {NoProps}]
               \cup {[props |-> NoProps, passed |-> FALSE, call |-> "pending", out |-> NoProps]}
  /\ sr = NotFollowed
  /\ ctor = NotFollowed
  /\ dd = NotFollowed
  /\ api = NotFollowed
  /\ react = NotFollowed

\* splitProps(props), from the call to the return or the throw
SplitCall ==
  /\ split.call = "pending"
  /\ split' =
       IF ~split.passed THEN [split EXCEPT !.call = "returned", !.out = NoProps]
       ELSE IF splitPropsThrows(split.props) THEN [split EXCEPT !.call = "threw"]
       ELSE [split EXCEPT !.call = "returned", !.out = splitProps(split.props)]
  /\ UNCHANGED <<sched, sr, ctor, dd, api, react>>

NextProps == SplitCall

SpecProps == InitProps /\ [][NextProps]_vars

\* the buckets of the result that hold key k
BucketsHolding(k) == {o \in split.out : \E e \in o[2] : e[1] = k}

\* the value stored under key k in bucket o
ValueIn(o, k) == (CHOOSE e \in o[2] : e[1] = k)[2]

\* C23: splitProps places every property whose value is not null/undefined into
\* exactly one bucket (strings into PropsString, booleans into PropsBool, safe
\* integers into PropsLong, every other number and every other value into
\* PropsString as text), drops null/undefined values, and omits every bucket
\* that stayed empty.
C23_SplitPropsClassifies ==
  (split.call = "returned" /\ split.passed) =>
    /\ \A p \in split.props :
         LET k == p[1]
             v == p[2]
         IN IF v.t \in {"null", "undefined"}
            THEN BucketsHolding(k) = {}
            ELSE /\ Cardinality(BucketsHolding(k)) = 1
                 /\ \A o \in BucketsHolding(k) :
                      CASE v.t = "string" ->
                             o[1] = "PropsString" /\ ValueIn(o, k).t = "string"
                        [] v.t = "boolean" ->
                             o[1] = "PropsBool" /\ ValueIn(o, k) = v
                        [] v.t = "number" /\ v.k = "finite" ->
                             o[1] = "PropsLong" /\ ValueIn(o, k) = v
                        [] OTHER ->
                             o[1] = "PropsString" /\ ValueIn(o, k).t = "string"
    /\ \A o \in split.out : o[1] \in BucketNames /\ o[2] # {}
    /\ \A o1, o2 \in split.out : o1[1] = o2[1] => o1 = o2

\* C24: splitProps is total: for every property map, including values whose
\* JSON serialization fails and whose string coercion fails, it returns a
\* result and never throws.
C24_SplitPropsTotal == split.call # "threw"


\* ---------------------------------------------------------------------------
\* react/init.ts: the module-level instance behind initOnce, getInstance and
\* resetInstanceForTests, over any sequence of calls.
\* ---------------------------------------------------------------------------

\* clients sdkInit may create in one run
MaxClients == 3

\* the configs initOnce is called with: three that init accepts, one without
\* telegramBotId, and none at all
OnceConfigs ==
  {Obj([projectId |-> Str("p"), botId |-> Str("b"), telegramBotId |-> Num(1)]),
   Obj([projectId |-> Str("p"), botId |-> Str("b"), telegramBotId |-> Num(1), auth |-> Fn]),
   Obj([projectId |-> Str("q"), botId |-> Str("b"), telegramBotId |-> Num(1)]),
   Obj([projectId |-> Str("p"), botId |-> Str("b"), telegramBotId |-> Undefined]),
   Undefined}

\* what a call of the module left behind: its name, its argument, how it
\* ended, and whether it ran sdkInit to the end
Call(op, config, out, fresh) == [op |-> op, config |-> config, out |-> out, fresh |-> fresh]

\* an initOnce that initializes the SDK on every call
initOnceAlways(r, config) ==
  IF initThrows(config)
  THEN [r EXCEPT !.last = Call("initOnce", config, Threw, FALSE)]
  ELSE LET c == [id |-> r.made + 1, config |-> config]
       IN [r EXCEPT !.instance = c, !.made = @ + 1, !.inits = @ + 1,
                    !.alive = @ \cup {c.id},
                    !.last = Call("initOnce", config, Returned(c), TRUE)]

\* initOnce(config): sdkInit runs only while instance is null, and a throwing
\* sdkInit leaves instance null
initOnce(r, config) ==
  IF r.instance # Null
  THEN [r EXCEPT !.last = Call("initOnce", config, Returned(r.instance), FALSE)]
  ELSE IF initThrows(config)
  THEN [r EXCEPT !.last = Call("initOnce", config, Threw, FALSE)]
  ELSE LET c == [id |-> r.made + 1, config |-> config]
       IN [r EXCEPT !.instance = c, !.made = @ + 1, !.inits = @ + 1,
                    !.alive = @ \cup {c.id},
                    !.last = Call("initOnce", config, Returned(c), TRUE)]

getInstance(r) ==
  [r EXCEPT !.last = Call("getInstance", Undefined,
                          IF r.instance = Null THEN Threw ELSE Returned(r.instance), FALSE)]

\* resetInstanceForTests: instance && instance.shutdown(), then instance = null
resetInstanceForTests(r) ==
  [r EXCEPT !.alive = IF r.instance = Null THEN @ ELSE @ \ {r.instance.id},
            !.instance = Null,
            !.inits = 0,
            !.last = Call("resetInstanceForTests", Undefined, Returned(Undefined), FALSE)]

\* the application calls shutdown() on the client it was given
shutdownInstance(r) ==
  [r EXCEPT !.alive = @ \ {r.instance.id},
            !.last = Call("shutdown", Undefined, Returned(Undefined), FALSE)]

InitOnce ==
  /\ NoClient
  /\ react = [instance |-> Null, made |-> 0, inits |-> 0, alive |-> {},
              last |-> Call("import", Undefined, Returned(Undefined), FALSE)]
  /\ sr = NotFollowed
  /\ ctor = NotFollowed
  /\ dd = NotFollowed
  /\ api = NotFollowed
  /\ split = NotFollowed

InitOnceCall ==
  \E config \in OnceConfigs :
    /\ react.instance = Null /\ ~initThrows(config) => react.made < MaxClients
    /\ react' = initOnce(react, config)
    /\ UNCHANGED <<sched, sr, ctor, dd, api, split>>

GetInstanceCall ==
  /\ react' = getInstance(react)
  /\ UNCHANGED <<sched, sr, ctor, dd, api, split>>

ResetCall ==
  /\ react' = resetInstanceForTests(react)
  /\ UNCHANGED <<sched, sr, ctor, dd, api, split>>

InstanceShutdown ==
  /\ react.instance # Null
  /\ react' = shutdownInstance(react)
  /\ UNCHANGED <<sched, sr, ctor, dd, api, split>>

NextOnce == InitOnceCall \/ GetInstanceCall \/ ResetCall \/ InstanceShutdown

SpecOnce == InitOnce /\ [][NextOnce]_vars

\* C25: initOnce is idempotent: between two resets the SDK is initialized at
\* most once, and exactly once as soon as an initOnce call has returned; every
\* initOnce call that returns gives that one instance, whatever config it was
\* passed; getInstance returns it, and throws when there is none.
C25_InitOnceIdempotent ==
  /\ react.inits <= 1
  /\ (react.inits = 0) <=> (react.instance = Null)
  /\ react.alive \subseteq (IF react.instance = Null THEN {} ELSE {react.instance.id})
  /\ (react.last.op = "initOnce" /\ ~react.last.out.threw) =>
       /\ react.inits = 1
       /\ react.last.out.v = react.instance
  /\ react.last.op = "getInstance" =>
       IF react.instance = Null
       THEN react.last.out.threw
       ELSE ~react.last.out.threw /\ react.last.out.v = react.instance

\* a later initOnce call, with another config, returned the client the first
\* call created
C25_Witness ==
  /\ react.last.op = "initOnce"
  /\ ~react.last.out.threw
  /\ ~react.last.fresh
  /\ react.last.config # react.instance.config
  /\ react.last.out.v = react.instance


\* ---------------------------------------------------------------------------
\* react/index.tsx: one MetrioxProvider in the browser, from its first render
\* to its unmount, under any sequence of props. A render is followed here
\* together with the commit of its effects.
\* ---------------------------------------------------------------------------

\* renders of the provider in one run
MaxRenders == 3

\* a client value: null, the client passed as the client prop, or the n-th
\* client sdkInit returned to this provider (n >= 1)
NoClientYet == 0
PropClient == -1

\* the props of a render: whether a client is passed, and which config object
\* (0: none; the deps of an effect compare configs by identity)
NoConfig == 0
ProviderProps == [client : BOOLEAN, config : {NoConfig, 1, 2}]

\* the provider before its first render
NewProvider ==
  [phase |-> "new", props |-> [client |-> FALSE, config |-> NoConfig],
   client |-> NoClientYet, first |-> NoClientYet, createdClientRef |-> FALSE,
   cleanup |-> NoClientYet, created |-> {}, shut |-> {}, renders |-> 0, plain |-> TRUE]

\* the client sdkInit returns next
FreshClient(p) == Cardinality(p.created) + 1

\* the function body up to useState: initialClient is computed on every render
\* and sdkInit(config) is called whenever a config and no client prop is given
initialClient(p, props) ==
  IF props.client THEN [p |-> p, c |-> PropClient]
  ELSE IF props.config = NoConfig THEN [p |-> p, c |-> NoClientYet]
  ELSE [p |-> [p EXCEPT !.created = @ \cup {FreshClient(p)}, !.createdClientRef = TRUE],
        c |-> FreshClient(p)]

\* the effect on [clientProp, config]: the cleanup of its last run, then its
\* body with the client state `rendered` this render saw
clientEffect(p, props, rendered) ==
  LET p0 == IF p.cleanup = NoClientYet THEN p
            ELSE [p EXCEPT !.shut = @ \cup {p.cleanup}, !.cleanup = NoClientYet]
  IN IF props.client
     THEN [(IF p0.createdClientRef /\ rendered # NoClientYet
            THEN [p0 EXCEPT !.shut = @ \cup {rendered}, !.createdClientRef = FALSE]
            ELSE p0)
             EXCEPT !.client = PropClient]
     ELSE IF rendered = NoClientYet /\ props.config # NoConfig
     THEN [p0 EXCEPT !.created = @ \cup {FreshClient(p0)},
                     !.client = FreshClient(p0),
                     !.createdClientRef = TRUE,
                     !.cleanup = FreshClient(p0)]
     ELSE p0

\* one render with its commit: the first one fixes the client state and the
\* client the unmount cleanup closes over; later ones keep the state and run
\* the effect only when its deps changed
renderProvider(p, props) ==
  LET r == initialClient(p, props)
      first == p.phase = "new"
      rendered == IF first THEN r.c ELSE p.client
      p1 == [r.p EXCEPT !.phase = "mounted",
                        !.props = props,
                        !.client = rendered,
                        !.first = IF first THEN r.c ELSE @,
                        !.renders = @ + 1,
                        !.plain = @ /\ ~props.client /\ props.config # NoConfig]
  IN IF first \/ props # p.props THEN clientEffect(p1, props, rendered) ELSE p1

\* the unmount: the cleanup of the effect on [clientProp, config], then the
\* cleanup registered at mount, which closes over the first render's client
unmountProvider(p) ==
  LET p0 == IF p.cleanup = NoClientYet THEN p
            ELSE [p EXCEPT !.shut = @ \cup {p.cleanup}, !.cleanup = NoClientYet]
  IN [(IF p0.createdClientRef /\ p0.first # NoClientYet
       THEN [p0 EXCEPT !.shut = @ \cup {p0.first}]
       ELSE p0)
        EXCEPT !.phase = "gone"]

InitProvider ==
  /\ NoClient
  /\ react = NewProvider
  /\ sr = NotFollowed
  /\ ctor = NotFollowed
  /\ dd = NotFollowed
  /\ api = NotFollowed
  /\ split = NotFollowed

\* the provider renders: at mount, when its parent renders, or after setClient
Render ==
  \E props \in ProviderProps :
    /\ react.phase # "gone"
    /\ react.renders < MaxRenders
    /\ react' = renderProvider(react, props)
    /\ UNCHANGED <<sched, sr, ctor, dd, api, split>>

Unmount ==
  /\ react.phase = "mounted"
  /\ react' = unmountProvider(react)
  /\ UNCHANGED <<sched, sr, ctor, dd, api, split>>

NextProvider == Render \/ Unmount

SpecProvider == InitProvider /\ [][NextProvider]_vars

\* C37: a MetrioxProvider given a config (and no client prop) creates exactly
\* one client instance over its mounted lifetime, however many times it
\* re-renders, and every client it created is shut down by the time it has
\* unmounted.
C37_ProviderOwnsOneClient ==
  (react.plain /\ react.phase # "new") =>
    /\ Cardinality(react.created) = 1
    /\ react.phase = "gone" => react.created \subseteq react.shut

\* ---------------------------------------------------------------------------
\* dedupe.ts: two browser contexts on one storage adapter and one key, each
\* running shouldSendOnce and, when allowed, markSent
\* ---------------------------------------------------------------------------

Contexts == {"tabA", "tabB"}

\* a context that is not inside a shouldSendOnce / markSent sequence
IdleContext ==
  [pc |-> "idle", raw |-> Null, answer |-> "none", at |-> 0, ttl |-> 0,
   raced |-> FALSE, overwritten |-> FALSE]

\* a context whose read is outstanding: it has read and has not written since
HasRead(c) == c.pc \in {"reading", "allowed", "denied"}

\* an adapter whose get is refused while another context holds a read
adapterGetLocked(store, peers) ==
  IF \E c \in peers : c.pc \in {"reading", "allowed"}
  THEN Str(ExpiryText(MaxExpiry))
  ELSE store

\* adapter.get(key) on the shared storage: the stored text, whatever other
\* contexts are doing
adapterGet(store, peers) == store

InitContexts ==
  /\ NoClient
  /\ dd = [now |-> 1, store |-> Null, ctx |-> [c \in Contexts |-> IdleContext]]
  /\ sr = NotFollowed
  /\ ctor = NotFollowed
  /\ api = NotFollowed
  /\ split = NotFollowed
  /\ react = NotFollowed

\* time passes
CtxTick ==
  /\ dd.now < MaxNow
  /\ dd' = [dd EXCEPT !.now = @ + 1]
  /\ UNCHANGED <<sched, sr, ctor, api, split, react>>

\* a context calls shouldSendOnce: adapter.get runs, the function suspends at
\* its await
CtxShouldCall ==
  \E c \in Contexts :
    LET peers == {dd.ctx[d] : d \in Contexts \ {c}}
    IN /\ dd.ctx[c].pc \in {"idle", "denied", "marked"}
       /\ dd' = [dd EXCEPT
                   !.ctx = [d \in Contexts |->
                             IF d = c
                             THEN [IdleContext EXCEPT
                                     !.pc = "reading",
                                     !.raw = adapterGet(dd.store, peers),
                                     !.raced = \E q \in peers :
                                                 HasRead(q) /\ ~q.overwritten]
                             ELSE [dd.ctx[d] EXCEPT !.raced = FALSE]]]
       /\ UNCHANGED <<sched, sr, ctor, api, split, react>>

\* shouldSendOnce resumes after the await and settles its promise
CtxShouldSettle ==
  \E c \in Contexts :
    /\ dd.ctx[c].pc = "reading"
    /\ LET answer == answerFor(dd.ctx[c].raw, dd.now)
       IN dd' = [dd EXCEPT !.ctx[c].pc = IF answer = "true" THEN "allowed" ELSE "denied",
                           !.ctx[c].answer = answer,
                           !.ctx[c].at = dd.now]
    /\ UNCHANGED <<sched, sr, ctor, api, split, react>>

\* an allowed context runs markSent(adapter, key, ttl)
CtxMarkSent ==
  \E c \in Contexts, ttl \in 0 .. MaxTtl :
    /\ dd.ctx[c].pc = "allowed"
    /\ dd' = [dd EXCEPT
                !.store = Str(ExpiryText(dd.now + ttl)),
                !.ctx = [d \in Contexts |->
                          IF d = c
                          THEN [dd.ctx[d] EXCEPT !.pc = "marked", !.ttl = ttl]
                          ELSE IF HasRead(dd.ctx[d])
                               THEN [dd.ctx[d] EXCEPT !.overwritten = TRUE]
                               ELSE dd.ctx[d]]]
    /\ UNCHANGED <<sched, sr, ctor, api, split, react>>

NextContexts ==
  \/ CtxTick
  \/ CtxShouldCall
  \/ CtxShouldSettle
  \/ CtxMarkSent

SpecContexts == InitContexts /\ [][NextContexts]_vars

\* shouldSendOnce has settled in the context
HasAnswer(c) == c.pc \in {"allowed", "denied", "marked"}

\* the two contexts read with no write between the reads, so before the write
\* of either
BothReadFirst(c, d) ==
  /\ c # d
  /\ dd.ctx[d].raced
  /\ HasAnswer(dd.ctx[c])
  /\ HasAnswer(dd.ctx[d])

\* C38: dedupe is not atomic across contexts. When two contexts on one adapter
\* and one key both read before either writes, both read the same stored value,
\* and the write of the one that is allowed does not stop the other: if the
\* context answered first is allowed, so is the other one.
C38_BothReadersAllowed ==
  \A c, d \in Contexts :
    BothReadFirst(c, d) =>
      /\ dd.ctx[c].raw = dd.ctx[d].raw
      /\ (dd.ctx[c].at <= dd.ctx[d].at /\ dd.ctx[c].answer = "true")
           => dd.ctx[d].answer = "true"
      /\ (dd.ctx[d].at <= dd.ctx[c].at /\ dd.ctx[d].answer = "true")
           => dd.ctx[c].answer = "true"

\* both contexts were allowed and both marked the key, the second allow
\* falling inside the ttl window the first one opened
C38_Witness ==
  \E c, d \in Contexts :
    /\ BothReadFirst(c, d)
    /\ dd.ctx[c].pc = "marked"
    /\ dd.ctx[d].pc = "marked"
    /\ dd.ctx[c].at <= dd.ctx[d].at
    /\ dd.ctx[d].at < dd.ctx[c].at + dd.ctx[c].ttl

====
